---- MODULE Spec2Model ----
(***************************************************************************)
(* A state-machine model of the interior-design visualizer front end:      *)
(*   - ThreeDViewer / SceneInner  (src/src/components/ThreeDViewer.jsx)    *)
(*   - RoomQuickEditorNEW         (src/src/components/RoomQuickEditorNEW.jsx)*)
(*   - RoomQuickEditor            (src/unnamed/part_000)                    *)
(*                                                                         *)
(* Numbers are fixed point: One stands for 1.0, so one unit is 1e-6.       *)
(* Room sizes of the model are multiples of 2e-6, so size / 2 is exact.    *)
(* Room names are non-empty strings (the JSDoc's {name, ...} record) and    *)
(* pairwise distinct within a layout: a room's name is its React key.      *)
(***************************************************************************)
EXTENDS Integers, Sequences, FiniteSets, TLC

\* ------------------------------------------------------------------------
\* Bounds of the model
\* ------------------------------------------------------------------------
MaxRooms == 2

\* ------------------------------------------------------------------------
\* Fixed-point numbers and JavaScript number helpers
\* ------------------------------------------------------------------------
One == 1000000
Q3 == 1000
Q5 == 10
DefaultSize == 3 * One

Abs(v) == IF v >= 0 THEN v ELSE -v

\* Number.prototype.toFixed(d) followed by Number(): nearest multiple of the
\* quantum q = 10^-d, ties away from zero.
ToFixed(v, q) ==
  IF v >= 0 THEN ((2 * v + q) \div (2 * q)) * q
            ELSE -(((2 * (-v) + q) \div (2 * q)) * q)

\* Math.round(a / b) for b # 0: floor(a / b + 1/2).
MathRound(a, b) ==
  IF b > 0 THEN (2 * a + b) \div (2 * b)
           ELSE (2 * (-a) + (-b)) \div (2 * (-b))

\* tagged JavaScript values: a number, undefined, or a non-numeric string
Num(v) == [k |-> "num", v |-> v]
Undef == [k |-> "undefined", v |-> 0]
NaS == [k |-> "string", v |-> 0]

\* typeof v !== "undefined"
IsDefined(v) == v.k # "undefined"

\* Number(v) || d
NumberOr(v, d) == IF v.k = "num" /\ v.v # 0 THEN v.v ELSE d

\* ------------------------------------------------------------------------
\* Strings as sequences of characters (modelPath)
\* ------------------------------------------------------------------------
Lower(c) ==
  CASE c = "A" -> "a" [] c = "B" -> "b" [] c = "C" -> "c" [] c = "D" -> "d"
    [] c = "E" -> "e" [] c = "F" -> "f" [] c = "G" -> "g" [] c = "H" -> "h"
    [] c = "I" -> "i" [] c = "J" -> "j" [] c = "K" -> "k" [] c = "L" -> "l"
    [] c = "M" -> "m" [] c = "N" -> "n" [] c = "O" -> "o" [] c = "P" -> "p"
    [] c = "Q" -> "q" [] c = "R" -> "r" [] c = "S" -> "s" [] c = "T" -> "t"
    [] c = "U" -> "u" [] c = "V" -> "v" [] c = "W" -> "w" [] c = "X" -> "x"
    [] c = "Y" -> "y" [] c = "Z" -> "z"
    [] OTHER -> c

toLowerCase(s) == [i \in 1..Len(s) |-> Lower(s[i])]

endsWith(s, suf) ==
  /\ Len(s) >= Len(suf)
  /\ SubSeq(s, Len(s) - Len(suf) + 1, Len(s)) = suf

startsWith(s, pre) ==
  /\ Len(s) >= Len(pre)
  /\ SubSeq(s, 1, Len(pre)) = pre

StrPath(s) == [k |-> "string", s |-> s]
NullPath == [k |-> "null", s |-> <<>>]
NumPath == [k |-> "number", s |-> <<>>]

S_glb == <<".", "g", "l", "b">>
S_gltf == <<".", "g", "l", "t", "f">>
S_demo == <<"d", "e", "m", "o">>
S_demoExterior == S_demo \o <<"-", "e", "x", "t", "e", "r", "i", "o", "r">>
S_demoCulture == S_demo \o <<"-", "c", "u", "l", "t", "u", "r", "e">>


\* the model paths the viewer is exercised with
P_glb == StrPath(<<"a">> \o S_glb)
P_GLB == StrPath(<<"A", ".", "G", "L", "B">>)
P_gltf == StrPath(<<"m">> \o S_gltf)
P_glbNoDot == StrPath(<<"g", "l", "b">>)
P_demoExtGlb == StrPath(S_demoExterior \o S_glb)
P_demoExt == StrPath(S_demoExterior)
P_demoCulture == StrPath(S_demoCulture \o <<"2">>)
P_demo == StrPath(S_demo)
P_demoX == StrPath(S_demo \o <<"-", "x">>)
P_DemoExt == StrPath(<<"D">> \o Tail(S_demoExterior))
P_room == StrPath(<<"r", "o", "o", "m">>)

ModelPaths ==
  {NullPath, NumPath, P_glb, P_GLB, P_gltf, P_glbNoDot, P_demoExtGlb,
   P_demoExt, P_demoCulture, P_demo, P_demoX, P_DemoExt, P_room}

\* ------------------------------------------------------------------------
\* Layout rooms
\* ------------------------------------------------------------------------
Unset == "<undefined>"

Room(n, sz, x, y, ry, sc, rot) ==
  [name |-> n, size |-> sz, x |-> x, y |-> y,
   rotationY |-> ry, scale |-> sc, rotation |-> rot]

R_A == Room("A", Num(5 * One), 0, 0, Undef, Undef, Undef)
R_A2 == Room("A", Num(0), 1234567, 2 * One, Undef, Num(2 * One), Num(1570796))
R_B == Room("B", NaS, 5500000, -1234500, Num(785398), Num(1500000), Num(785398))
R_C == Room("C", Undef, One, -One, Num(-785398), Undef, Undef)
\* a room whose name is the empty string
R_E == Room("", Num(4 * One), 2 * One, 0, Undef, Undef, Undef)

RoomPool == {R_A, R_A2, R_B, R_C}

SeqsUpTo(S, n) == UNION {[1..k -> S] : k \in 0..n}

\* room.name is the React key of the room's elements: names are pairwise distinct
DistinctNames(lay) ==
  \A i, j \in 1..Len(lay) : lay[i].name = lay[j].name => i = j

Layouts == {lay \in SeqsUpTo(RoomPool, MaxRooms) : DistinctNames(lay)}

\* the built-in demo layout of ThreeDViewer
demoLayout ==
  << Room("Living Room", Num(5 * One), 0, 0, Undef, Undef, Undef),
     Room("Kitchen", Num(4500000), 5500000, 0, Undef, Undef, Undef),
     Room("Master Suite", Num(4500000), 0, 5500000, Undef, Undef, Undef) >>

SelectableNames == {Unset, "A", "B", "C"}

\* if (!selectedRoomName): undefined and the empty string
Falsy(name) == name \in {Unset, ""}
Modes == {"translate", "rotate", "scale"}
Snaps == {0, 500000}

\* poses the user can drag a group to
DragPositions == {[x |-> 3141593, z |-> -2718282]}
DragRotations == {1234567}
DragScales == {0}

\* ------------------------------------------------------------------------
\* Pure helpers of the scene
\* ------------------------------------------------------------------------
\* const size = Number(room.size) || 3
SizeOf(room) == NumberOr(room.size, DefaultSize)

\* top-left -> centre: room.x + size / 2
Centre(tl, size) == tl + size \div 2


\* TopLeft with the whole size subtracted instead of half of it
TopLeftWholeSize(c, size) == c - size

\* centre -> top-left: grp.position.x - size / 2
TopLeft(c, size) == c - size \div 2


\* snapTo with the quotient truncated down instead of rounded
snapToFloor(v, s) == IF s # 0 THEN (IF s > 0 THEN v \div s ELSE (-v) \div (-s)) * s ELSE v

\* const snapTo = (v) => (snap ? Math.round(v / snap) * snap : v)
snapTo(v, s) == IF s # 0 THEN MathRound(v, s) * s ELSE v

\* (layout.rooms || []).find((r) => r.name === name): index of the first, 0 if none
FindRoom(lay, name) ==
  IF \E i \in 1..Len(lay) : lay[i].name = name
    THEN CHOOSE i \in 1..Len(lay) :
           /\ lay[i].name = name
           /\ \A j \in 1..(i - 1) : lay[j].name # name
    ELSE 0

\* const isSelected = selectedRoomName === room.name
isSelected(sel, room) == sel = room.name


\* isGLTF of ThreeDViewer
isGLTF(mp) ==
  /\ mp.k = "string"
  /\ \/ endsWith(toLowerCase(mp.s), S_glb)
     \/ endsWith(toLowerCase(mp.s), S_gltf)

\* which view the render of ThreeDViewer returns
ViewOf(mp) ==
  IF isGLTF(mp) THEN "gltf"
  ELSE IF mp.k = "string" /\ startsWith(mp.s, S_demoExterior) THEN "exterior"
  ELSE IF mp.k = "string" /\ startsWith(mp.s, S_demoCulture) THEN "culture"
  ELSE "rooms"

UsesDemoLayout(mp) == mp.k = "string" /\ startsWith(mp.s, S_demo)

\* the layout prop handed to SceneInner
SceneLayoutOf(mp, lay) == IF UsesDemoLayout(mp) THEN demoLayout ELSE lay


\* ------------------------------------------------------------------------
\* State of the viewer
\* ------------------------------------------------------------------------
VARIABLES
  modelPath,          \* prop modelPath of ThreeDViewer
  layout,             \* prop layout.rooms of ThreeDViewer
  selectedRoomName,   \* prop selectedRoomName
  mode,               \* prop mode
  snap,               \* prop snap
  hasOnTransformEnd,  \* whether prop onTransformEnd was provided
  renderMode,         \* useState('furnished')
  previewImg,         \* useState(null): TRUE when a preview image is held
  viewerErr,          \* the render of ThreeDViewer threw
  view,               \* which view the last render returned
  sceneLayout,        \* layout.rooms of the mounted SceneInner
  groups,             \* pose of the scene group of every room, by room index
  tcs,                \* per room index: mode of its TransformControls, or "none"
  groupRefs,          \* groupRefs.current: name -> room index of the group, 0 = null
  transformRef,       \* transformRef.current: room index of the controls, 0 = null
  listener,           \* the mouseUp / objectChange listeners registered on controls,
                      \* newest first, each with the closure of its effect run
  obs                 \* what the last user event made observable to the parent

viewerVars ==
  << modelPath, layout, selectedRoomName, mode, snap, hasOnTransformEnd,
     renderMode, previewImg, viewerErr, view, sceneLayout, groups, tcs,
     groupRefs, transformRef, listener, obs >>

VARIABLES
  panel,      \* which quick editor the page has mounted: "quick" or "game"
  hasOnSave,  \* whether prop onSave was provided to RoomQuickEditorNEW
  quick,      \* RoomQuickEditorNEW: its state, its timers, localStorage, and
              \* what its last event did outside the component
  game,       \* RoomQuickEditor: its state, its timers, and the same record
  furn,       \* the furniture edit panel the page has mounted: its props, its
              \* state, and what its last event did
  interior,   \* SceneInner's furniture: the rooms' names, renderMode,
              \* externalFurniture, the model files and the memoised glTFs
  gltfView    \* ThreeDViewer showing a glTF file: the url, the load, modelTarget,
              \* and the orbit controls' target and camera

editorVars == << panel, hasOnSave, quick, game, furn, interior, gltfView >>

vars == << viewerVars, editorVars >>

AllNames == {"", "A", "B", "C", "Living Room", "Kitchen", "Master Suite"}

NoListener == <<>>

NoObs ==
  [op |-> "none", tcalls |-> <<>>, scalls |-> <<>>, room |-> Unset, result |-> "none",
   rooms |-> "array", ready |-> "none", rcalls |-> <<>>]

\* a freshly mounted <group position={[centerX, 0, centerZ]}>
FreshGroup(room) ==
  [px |-> Centre(room.x, SizeOf(room)), pz |-> Centre(room.y, SizeOf(room)),
   ry |-> 0, sc |-> One]

\* reconciliation key of the group of a room: room.name + "-tc" / "-schematic" /
\* "-furnished", with the key of the group inside the controls
GroupKey(room, sel, rm) == << room.name, isSelected(sel, room), rm >>

\* Which mounted group the room of the new render keeps: the one with its key
\* (0: a new group is mounted)
KeptGroup(oldLay, oldSel, oldRm, room, sel, rm) ==
  LET olds == {i \in 1..Len(oldLay) :
                 GroupKey(oldLay[i], oldSel, oldRm) = GroupKey(room, sel, rm)}
  IN IF olds = {} THEN 0 ELSE CHOOSE i \in olds : TRUE

\* the group of a room after the render: a kept group has its position prop
\* applied only when the prop changed
RenderedGroup(oldLay, oldGroups, kept, room) ==
  IF kept = 0 THEN FreshGroup(room)
  ELSE LET old == oldGroups[kept]
           was == FreshGroup(oldLay[kept])
           now == FreshGroup(room)
       IN IF was.px = now.px /\ was.pz = now.pz THEN old
          ELSE [old EXCEPT !.px = now.px, !.pz = now.pz]

\* ref={(el) => (groupRefs.current[room.name] = el)}: the last room of a name wins
RefsOf(lay) ==
  [n \in AllNames |->
     IF \E i \in 1..Len(lay) : lay[i].name = n
       THEN CHOOSE i \in 1..Len(lay) :
              /\ lay[i].name = n
              /\ \A j \in (i + 1)..Len(lay) : lay[j].name # n
       ELSE 0]


\* ControlsOf without the mode prop handed to the controls (their default mode)
ControlsOfDefaultMode(lay, sel, md) ==
  [i \in 1..Len(lay) |-> IF isSelected(sel, lay[i]) THEN "translate" ELSE "none"]

\* the TransformControls of the render
ControlsOf(lay, sel, md) ==
  [i \in 1..Len(lay) |-> IF isSelected(sel, lay[i]) THEN md ELSE "none"]

\* ref={transformRef}: the last controls of the render
LastControl(ctl) ==
  IF \E i \in 1..Len(ctl) : ctl[i] # "none"
    THEN CHOOSE i \in 1..Len(ctl) :
           /\ ctl[i] # "none"
           /\ \A j \in (i + 1)..Len(ctl) : ctl[j] = "none"
    ELSE 0

\* SyncRoom without g.position.set
SyncRoomKeepPosition(gs, refs, r) ==
  LET g == refs[r.name]
  IN IF g = 0 THEN gs
     ELSE [gs EXCEPT
             ![g].ry = IF IsDefined(r.rotationY) THEN r.rotationY.v ELSE @,
             ![g].sc = IF IsDefined(r.scale) THEN r.scale.v ELSE @]

\* one room of the layout sync effect
SyncRoom(gs, refs, r) ==
  LET g == refs[r.name]
  IN IF g = 0 THEN gs
     ELSE [gs EXCEPT
             ![g] = [px |-> Centre(r.x, SizeOf(r)),
                     pz |-> Centre(r.y, SizeOf(r)),
                     ry |-> IF IsDefined(r.rotationY) THEN r.rotationY.v ELSE @.ry,
                     sc |-> IF IsDefined(r.scale) THEN r.scale.v ELSE @.sc]]

\* the layout sync effect: (layout.rooms || []).forEach(...)
RECURSIVE SyncFrom(_, _, _, _)
SyncFrom(k, gs, refs, lay) ==
  IF k > Len(lay) THEN gs
  ELSE SyncFrom(k + 1, SyncRoom(gs, refs, lay[k]), refs, lay)

SyncLayout(gs, refs, lay) == SyncFrom(1, gs, refs, lay)


\* ------------------------------------------------------------------------
\* Rendering (one React commit of ThreeDViewer and SceneInner, effects included)
\* ------------------------------------------------------------------------
\* EffectListener without the cleanup of the previous run
EffectListenerNoCleanup(prev, ctlIdx, sel, lay, sn, cb) ==
  IF ctlIdx = 0 THEN prev
  ELSE << [ctl |-> ctlIdx, sel |-> sel, layout |-> lay, snap |-> sn, cb |-> cb] >> \o prev

\* the transform-controls effect: registers onMouseUp on transformRef.current
\* The cleanup of the previous run removes the listeners that run added (prev:
\* the registrations before this run); without controls the run adds none.
EffectListener(prev, ctlIdx, sel, lay, sn, cb) ==
  LET cleaned == IF prev = <<>> THEN <<>> ELSE Tail(prev)
  IN IF ctlIdx = 0 THEN cleaned
     ELSE << [ctl |-> ctlIdx, sel |-> sel, layout |-> lay, snap |-> sn, cb |-> cb] >>
          \o cleaned

Unmounted ==
  /\ sceneLayout' = <<>>
  /\ groups' = <<>>
  /\ tcs' = <<>>
  /\ groupRefs' = [n \in AllNames |-> 0]
  /\ transformRef' = 0
  /\ listener' = NoListener

\* SceneInner rendered with the new props; layNew: the layout prop is a new object
RenderScene(mp, lay, sel, md, sn, cb, rm, layNew) ==
  LET newLay == SceneLayoutOf(mp, lay)
      layChanged == \/ view # "rooms"
                    \/ layNew
                    \/ UsesDemoLayout(mp)
                    \/ UsesDemoLayout(modelPath)
      depsChanged == \/ layChanged
                     \/ sel # selectedRoomName
                     \/ cb # hasOnTransformEnd
                     \/ sn # snap
      refs == RefsOf(newLay)
      ctl == ControlsOf(newLay, sel, md)
      rendered == [j \in 1..Len(newLay) |->
                     RenderedGroup(sceneLayout, groups,
                                   KeptGroup(sceneLayout, selectedRoomName, renderMode,
                                             newLay[j], sel, rm),
                                   newLay[j])]
  IN /\ groups' = IF layChanged THEN SyncLayout(rendered, refs, newLay) ELSE rendered
     /\ sceneLayout' = newLay
     /\ tcs' = ctl
     /\ groupRefs' = refs
     /\ transformRef' = LastControl(ctl)
     /\ listener' = IF depsChanged
                      THEN EffectListener(listener, LastControl(ctl), sel, newLay, sn, cb)
                      ELSE listener

\* ThreeDViewer rendered with the new props and state.  The hooks after the
\* isGLTF early return run only in the non-GLTF render, so a render on the
\* other side of the early return than the previous one throws.
Commit(mp, lay, sel, md, sn, cb, rm, pv, layNew) ==
  /\ modelPath' = mp
  /\ layout' = lay
  /\ selectedRoomName' = sel
  /\ mode' = md
  /\ snap' = sn
  /\ hasOnTransformEnd' = cb
  /\ renderMode' = rm
  /\ previewImg' = pv
  /\ IF isGLTF(mp) # isGLTF(modelPath)
       THEN /\ viewerErr' = TRUE
            /\ view' = "none"
            /\ Unmounted
       ELSE /\ viewerErr' = FALSE
            /\ view' = ViewOf(mp)
            /\ IF ViewOf(mp) = "rooms"
                 THEN RenderScene(mp, lay, sel, md, sn, cb, rm, layNew)
                 ELSE Unmounted

\* the first render of a viewer mounted with these props
Mounted(mp, lay, sel, md, sn, cb) ==
  /\ modelPath = mp
  /\ layout = lay
  /\ selectedRoomName = sel
  /\ mode = md
  /\ snap = sn
  /\ hasOnTransformEnd = cb
  /\ renderMode = "furnished"
  /\ previewImg = FALSE
  /\ viewerErr = FALSE
  /\ view = ViewOf(mp)
  /\ obs = [NoObs EXCEPT !.op = "mount"]
  /\ IF ViewOf(mp) = "rooms"
       THEN LET newLay == SceneLayoutOf(mp, lay)
                refs == RefsOf(newLay)
                ctl == ControlsOf(newLay, sel, md)
            IN /\ sceneLayout = newLay
               /\ groups = SyncLayout([j \in 1..Len(newLay) |-> FreshGroup(newLay[j])],
                                      refs, newLay)
               /\ tcs = ctl
               /\ groupRefs = refs
               /\ transformRef = LastControl(ctl)
               /\ listener = EffectListener(NoListener, LastControl(ctl), sel, newLay, sn, cb)
       ELSE /\ sceneLayout = <<>>
            /\ groups = <<>>
            /\ tcs = <<>>
            /\ groupRefs = [n \in AllNames |-> 0]
            /\ transformRef = 0
            /\ listener = NoListener

\* ------------------------------------------------------------------------
\* Prop changes by the parent
\* ------------------------------------------------------------------------
\* what the parent passes as onRoomsReady: nothing, a function that returns,
\* a function that throws
ReadyCallbacks == {"none", "returns", "throws"}

\* layout.rooms.map(r => r.name)
NamesOf(lay) == [i \in 1..Len(lay) |-> lay[i].name]

\* the wrapper ThreeDViewer passes to SceneInner: it calls the parent's
\* onRoomsReady when that is a function, inside try/catch
ForwardRoomsReady(cbk, names) ==
  [ calls |-> IF cbk = "none" THEN << >> ELSE << names >>, threw |-> FALSE ]

\* the end of the layout sync effect: try { onRoomsReady && onRoomsReady(
\* Array.isArray(layout.rooms) ? layout.rooms.map(r => r.name) : []) } catch {}
NotifyRoomsReady(cbk, isArray, lay) ==
  ForwardRoomsReady(cbk, IF isArray THEN NamesOf(lay) ELSE << >>)

\* the parent passes a new layout object whose rooms are an array, with the
\* onRoomsReady of that render
ChangeLayoutNotifying(D, Cbs) ==
  /\ ~viewerErr
  /\ \E L \in D :
       Commit(modelPath, L, selectedRoomName, mode, snap, hasOnTransformEnd,
              renderMode, previewImg, TRUE)
  /\ \E cbk \in Cbs :
       obs' = [NoObs EXCEPT !.op = "layout", !.ready = cbk,
                 !.rcalls = IF view' = "rooms"
                              THEN NotifyRoomsReady(cbk, TRUE, sceneLayout').calls
                              ELSE << >>]
  /\ UNCHANGED editorVars

ChangeLayout(D) == ChangeLayoutNotifying(D, {"none"})

\* the parent passes a layout whose rooms are missing: (layout.rooms || [])
\* stands for them in the render and in both effects
ChangeRoomsMissing ==
  /\ ~viewerErr
  /\ Commit(modelPath, <<>>, selectedRoomName, mode, snap, hasOnTransformEnd,
            renderMode, previewImg, TRUE)
  /\ \E cbk \in ReadyCallbacks :
       obs' = [NoObs EXCEPT !.op = "layout", !.rooms = "undefined", !.ready = cbk,
                 !.rcalls = IF view' = "rooms"
                              THEN NotifyRoomsReady(cbk, FALSE, sceneLayout').calls
                              ELSE << >>]
  /\ UNCHANGED editorVars

\* the parent passes a layout whose rooms are an object that is not an array:
\* (layout.rooms || []).map is not a function, the render of SceneInner throws
\* and no effect runs
ChangeRoomsObject ==
  /\ ~viewerErr
  /\ view = "rooms"
  /\ layout' = <<>>
  /\ viewerErr' = TRUE
  /\ view' = "none"
  /\ Unmounted
  /\ \E cbk \in ReadyCallbacks :
       obs' = [NoObs EXCEPT !.op = "layout", !.rooms = "object", !.ready = cbk]
  /\ UNCHANGED << modelPath, selectedRoomName, mode, snap, hasOnTransformEnd,
                  renderMode, previewImg >>
  /\ UNCHANGED editorVars

ChangeSelection(D) ==
  /\ ~viewerErr
  /\ \E s \in D \ {selectedRoomName} :
       Commit(modelPath, layout, s, mode, snap, hasOnTransformEnd,
              renderMode, previewImg, FALSE)
  /\ obs' = NoObs
  /\ UNCHANGED editorVars

ChangeMode ==
  /\ ~viewerErr
  /\ \E m \in Modes \ {mode} :
       Commit(modelPath, layout, selectedRoomName, m, snap, hasOnTransformEnd,
              renderMode, previewImg, FALSE)
  /\ obs' = NoObs
  /\ UNCHANGED editorVars

ChangeSnap ==
  /\ ~viewerErr
  /\ \E s \in Snaps \ {snap} :
       Commit(modelPath, layout, selectedRoomName, mode, s, hasOnTransformEnd,
              renderMode, previewImg, FALSE)
  /\ obs' = NoObs
  /\ UNCHANGED editorVars

ChangeOnTransformEnd ==
  /\ ~viewerErr
  /\ Commit(modelPath, layout, selectedRoomName, mode, snap, ~hasOnTransformEnd,
            renderMode, previewImg, FALSE)
  /\ obs' = NoObs
  /\ UNCHANGED editorVars

ChangeModelPath ==
  /\ ~viewerErr
  /\ \E p \in ModelPaths \ {modelPath} :
       Commit(p, layout, selectedRoomName, mode, snap, hasOnTransformEnd,
              renderMode, previewImg, FALSE)
  /\ obs' = NoObs
  /\ UNCHANGED editorVars



\* setRenderMode as a toggle, whichever button was clicked
setRenderModeToggle(m) ==
  Commit(modelPath, layout, selectedRoomName, mode, snap, hasOnTransformEnd,
         IF renderMode = "furnished" THEN "schematic" ELSE "furnished",
         previewImg, FALSE)

\* ------------------------------------------------------------------------
\* User events of the viewer
\* ------------------------------------------------------------------------
\* setRenderMode(m): a state update to the current value does not re-render
setRenderMode(m) ==
  IF m = renderMode
    THEN UNCHANGED << modelPath, layout, selectedRoomName, mode, snap,
                      hasOnTransformEnd, renderMode, previewImg, viewerErr, view,
                      sceneLayout, groups, tcs, groupRefs, transformRef, listener >>
    ELSE Commit(modelPath, layout, selectedRoomName, mode, snap, hasOnTransformEnd,
                m, previewImg, FALSE)

ClickFurnished ==
  /\ ~viewerErr
  /\ setRenderMode("furnished")
  /\ obs' = NoObs
  /\ UNCHANGED editorVars

ClickSchematic ==
  /\ ~viewerErr
  /\ setRenderMode("schematic")
  /\ obs' = NoObs
  /\ UNCHANGED editorVars

\* "Preview 3D Image": canvas.toDataURL may throw (caught and logged); an
\* identical data URL does not re-render
ClickPreview ==
  /\ ~viewerErr
  /\ \E outcome \in {"throws", "same", "new"} :
       IF outcome = "throws" \/ (outcome = "same" /\ previewImg)
         THEN UNCHANGED << modelPath, layout, selectedRoomName, mode, snap,
                           hasOnTransformEnd, renderMode, previewImg, viewerErr, view,
                           sceneLayout, groups, tcs, groupRefs, transformRef, listener >>
         ELSE Commit(modelPath, layout, selectedRoomName, mode, snap,
                     hasOnTransformEnd, renderMode, TRUE, FALSE)
  /\ obs' = NoObs
  /\ UNCHANGED editorVars

\* "Close" of the preview overlay: setPreviewImg(null)
ClickClosePreview ==
  /\ ~viewerErr
  /\ previewImg
  /\ Commit(modelPath, layout, selectedRoomName, mode, snap, hasOnTransformEnd,
            renderMode, FALSE, FALSE)
  /\ obs' = NoObs
  /\ UNCHANGED editorVars

\* a pointer click on the mesh of room i: the meshes carry no pointer handler
ClickRoom ==
  /\ ~viewerErr
  /\ \E i \in 1..Len(sceneLayout) :
       obs' = [NoObs EXCEPT !.op = "click", !.room = sceneLayout[i].name]
  /\ UNCHANGED << modelPath, layout, selectedRoomName, mode, snap,
                  hasOnTransformEnd, renderMode, previewImg, viewerErr, view,
                  sceneLayout, groups, tcs, groupRefs, transformRef, listener >>
  /\ UNCHANGED editorVars

\* onMouseUp without the guard on selectedRoomName
onMouseUpUnguarded(c, refs, gs) ==
  IF c.sel = Unset THEN <<>>
  ELSE IF refs[c.sel] = 0 THEN <<>>
  ELSE LET grp == gs[refs[c.sel]]
           ri == FindRoom(c.layout, c.sel)
           size == IF ri = 0 THEN DefaultSize ELSE SizeOf(c.layout[ri])
       IN IF c.cb
            THEN << [name |-> c.sel,
                     x |-> snapTo(ToFixed(TopLeft(grp.px, size), Q3), c.snap),
                     y |-> snapTo(ToFixed(TopLeft(grp.pz, size), Q3), c.snap),
                     rotationY |-> ToFixed(IF grp.ry # 0 THEN grp.ry ELSE 0, Q5),
                     scale |-> ToFixed(IF grp.sc # 0 THEN grp.sc ELSE One, Q5)] >>
            ELSE <<>>

\* the calls of onTransformEnd made by the onObjectChange closure c: its body
\* is empty
onObjectChange(c, refs, gs) == <<>>

\* an objectChange event of controls i: every listener registered on them runs
RECURSIVE ObjectChangeCalls(_, _, _, _)
ObjectChangeCalls(regs, i, refs, gs) ==
  IF regs = <<>> THEN <<>>
  ELSE ObjectChangeCalls(Tail(regs), i, refs, gs)
       \o (IF Head(regs).ctl = i THEN onObjectChange(Head(regs), refs, gs) ELSE <<>>)

\* the pose the controls of room i give its group while the user drags
Dragged(g, md, p, r, s) ==
  CASE md = "translate" -> [g EXCEPT !.px = p.x, !.pz = p.z]
    [] md = "rotate" -> [g EXCEPT !.ry = r]
    [] md = "scale" -> [g EXCEPT !.sc = s]

\* dragging the controls of room i (objectChange events; onObjectChange is empty)
Drag ==
  /\ ~viewerErr
  /\ \E i \in 1..Len(tcs) :
       /\ tcs[i] # "none"
       /\ \E p \in DragPositions, r \in DragRotations, s \in DragScales :
            groups' = [groups EXCEPT ![i] = Dragged(@, tcs[i], p, r, s)]
       /\ obs' = [NoObs EXCEPT
                    !.op = "drag",
                    !.room = sceneLayout[i].name,
                    !.tcalls = ObjectChangeCalls(listener, i, groupRefs, groups')]
  /\ UNCHANGED << modelPath, layout, selectedRoomName, mode, snap,
                  hasOnTransformEnd, renderMode, previewImg, viewerErr, view,
                  sceneLayout, tcs, groupRefs, transformRef, listener >>
  /\ UNCHANGED editorVars


\* onMouseUp reporting y from position.x instead of position.z
onMouseUpXForY(c, refs, gs) ==
  IF Falsy(c.sel) THEN <<>>
  ELSE IF refs[c.sel] = 0 THEN <<>>
  ELSE LET grp == gs[refs[c.sel]]
           ri == FindRoom(c.layout, c.sel)
           size == IF ri = 0 THEN DefaultSize ELSE SizeOf(c.layout[ri])
           newX == ToFixed(TopLeft(grp.px, size), Q3)
           rotationY == ToFixed(IF grp.ry # 0 THEN grp.ry ELSE 0, Q5)
           scale == ToFixed(IF grp.sc # 0 THEN grp.sc ELSE One, Q5)
       IN IF c.cb
            THEN << [name |-> c.sel, x |-> snapTo(newX, c.snap), y |-> snapTo(newX, c.snap),
                     rotationY |-> rotationY, scale |-> scale] >>
            ELSE <<>>

\* the calls of onTransformEnd made by the onMouseUp closure c
onMouseUp(c, refs, gs) ==
  IF Falsy(c.sel) THEN <<>>
  ELSE IF refs[c.sel] = 0 THEN <<>>
  ELSE LET grp == gs[refs[c.sel]]
           ri == FindRoom(c.layout, c.sel)
           size == IF ri = 0 THEN DefaultSize ELSE SizeOf(c.layout[ri])
           newX == ToFixed(TopLeft(grp.px, size), Q3)
           newY == ToFixed(TopLeft(grp.pz, size), Q3)
           rotationY == ToFixed(IF grp.ry # 0 THEN grp.ry ELSE 0, Q5)
           scale == ToFixed(IF grp.sc # 0 THEN grp.sc ELSE One, Q5)
       IN IF c.cb
            THEN << [name |-> c.sel, x |-> snapTo(newX, c.snap), y |-> snapTo(newY, c.snap),
                     rotationY |-> rotationY, scale |-> scale] >>
            ELSE <<>>

\* a mouseUp event of controls i: every listener registered on them runs, in
\* the order of registration
RECURSIVE MouseUpCalls(_, _, _, _)
MouseUpCalls(regs, i, refs, gs) ==
  IF regs = <<>> THEN <<>>
  ELSE MouseUpCalls(Tail(regs), i, refs, gs)
       \o (IF Head(regs).ctl = i THEN onMouseUp(Head(regs), refs, gs) ELSE <<>>)

\* mouseUp dispatched by the controls of room i
MouseUp ==
  /\ ~viewerErr
  /\ \E i \in 1..Len(tcs) :
       /\ tcs[i] # "none"
       /\ obs' = [NoObs EXCEPT
                    !.op = "mouseUp",
                    !.room = sceneLayout[i].name,
                    !.tcalls = MouseUpCalls(listener, i, groupRefs, groups)]
  /\ UNCHANGED << modelPath, layout, selectedRoomName, mode, snap,
                  hasOnTransformEnd, renderMode, previewImg, viewerErr, view,
                  sceneLayout, groups, tcs, groupRefs, transformRef, listener >>
  /\ UNCHANGED editorVars


\* capture() of SceneInner without the try/catch around the forced render
SceneCaptureNoCatch(renderThrows) == IF renderThrows THEN "throws" ELSE "dataURL"

\* capture() of SceneInner: the forced render is wrapped in try/catch
SceneCapture(renderThrows) == "dataURL"

\* capture() of ThreeDViewer: if (!innerRef.current) return null
ViewerCapture(innerMounted, renderThrows) ==
  IF ~innerMounted THEN "null" ELSE SceneCapture(renderThrows)

Capture ==
  /\ ~viewerErr
  /\ \E renderThrows \in BOOLEAN :
       obs' = [NoObs EXCEPT
                 !.op = "capture",
                 !.room = IF renderThrows THEN "throws" ELSE "renders",
                 !.result = ViewerCapture(view = "rooms", renderThrows)]
  /\ UNCHANGED << modelPath, layout, selectedRoomName, mode, snap,
                  hasOnTransformEnd, renderMode, previewImg, viewerErr, view,
                  sceneLayout, groups, tcs, groupRefs, transformRef, listener >>
  /\ UNCHANGED editorVars

\* ------------------------------------------------------------------------
\* RoomQuickEditorNEW and RoomQuickEditor
\* ------------------------------------------------------------------------
MaxQty == 2
MaxPreview == 2
MaxTimers == 2
MaxGame == 2
MaxScore == 20


\* CATALOG of RoomQuickEditorNEW
CatalogKeys ==
  {"sofa", "armchair", "beanbag", "coffeetable", "sidetable", "bed",
   "nightstand", "rug", "painting", "plant", "tv", "lamp"}

CATALOG ==
  [k \in CatalogKeys |->
     CASE k = "sofa" -> [key |-> k, label |-> "Sofa", cat |-> "Seating", icon |-> "couch", price |-> 299]
       [] k = "armchair" -> [key |-> k, label |-> "Armchair", cat |-> "Seating", icon |-> "chair", price |-> 129]
       [] k = "beanbag" -> [key |-> k, label |-> "Bean Bag", cat |-> "Seating", icon |-> "purple", price |-> 59]
       [] k = "coffeetable" -> [key |-> k, label |-> "Coffee Table", cat |-> "Tables", icon |-> "wood", price |-> 149]
       [] k = "sidetable" -> [key |-> k, label |-> "Side Table", cat |-> "Tables", icon |-> "chair", price |-> 79]
       [] k = "bed" -> [key |-> k, label |-> "Bed", cat |-> "Bedroom", icon |-> "bed", price |-> 399]
       [] k = "nightstand" -> [key |-> k, label |-> "Nightstand", cat |-> "Bedroom", icon |-> "couch", price |-> 89]
       [] k = "rug" -> [key |-> k, label |-> "Rug", cat |-> "Decor", icon |-> "yarn", price |-> 69]
       [] k = "painting" -> [key |-> k, label |-> "Painting", cat |-> "Decor", icon |-> "frame", price |-> 49]
       [] k = "plant" -> [key |-> k, label |-> "Plant", cat |-> "Decor", icon |-> "plant", price |-> 39]
       [] k = "tv" -> [key |-> k, label |-> "TV", cat |-> "Electronics", icon |-> "tv", price |-> 499]
       [] k = "lamp" -> [key |-> k, label |-> "Lamp", cat |-> "Lighting", icon |-> "bulb", price |-> 29]]

\* the gallery cards the user clicks in the model
ClickedKeys == {"sofa", "lamp"}

\* Math.random() samples, in hundredths
RandomSamples == {0, 99}

\* localStorage key `rdh_quick_${roomType}`
StorageKey(roomType) == << "rdh_quick_", roomType >>

OtherKey == << "theme", "" >>

StorageKeys == {StorageKey("Living Room"), OtherKey}

\* stored strings: none, the JSON of a list, JSON of another value, not JSON
Absent == [kind |-> "absent", items |-> <<>>]
NotJson == [kind |-> "invalid", items |-> <<>>]
JsonObject == [kind |-> "object", items |-> <<>>]
\* an entry that localStorage.getItem throws on
Unreadable == [kind |-> "throws", items |-> <<>>]

\* the decimal digits JSON.stringify writes for a non-negative integer
RECURSIVE Digits(_)
Digits(n) == IF n < 10 THEN << n >> ELSE Digits(n \div 10) \o << n % 10 >>

\* the number JSON.parse reads from decimal digits
RECURSIVE ParseDigits(_)
ParseDigits(ds) ==
  IF ds = <<>> THEN 0
  ELSE 10 * ParseDigits(SubSeq(ds, 1, Len(ds) - 1)) + ds[Len(ds)]

\* JSON.stringify of one preview item: its members in insertion order
StringifyItem(it) ==
  << << "id", it.id >>, << "label", it.label >>, << "cat", it.cat >>,
     << "icon", it.icon >>,
     << "pos", << << "x", Digits(it.pos.x) >>, << "y", Digits(it.pos.y) >> >> >>,
     << "price", Digits(it.price) >> >>

\* ParseItem reading the members of pos in the wrong order
ParseItemSwapped(t) ==
  [id |-> t[1][2], label |-> t[2][2], cat |-> t[3][2], icon |-> t[4][2],
   pos |-> [x |-> ParseDigits(t[5][2][2][2]), y |-> ParseDigits(t[5][2][1][2])],
   price |-> ParseDigits(t[6][2])]

\* JSON.parse of the text of one preview item
ParseItem(t) ==
  [id |-> t[1][2], label |-> t[2][2], cat |-> t[3][2], icon |-> t[4][2],
   pos |-> [x |-> ParseDigits(t[5][2][1][2]), y |-> ParseDigits(t[5][2][2][2])],
   price |-> ParseDigits(t[6][2])]

\* JSON.stringify(previewItems)
Stringify(items) ==
  [kind |-> "array", items |-> [i \in 1..Len(items) |-> StringifyItem(items[i])]]

\* JSON.parse(raw) of the text of a list
JsonParse(raw) == [i \in 1..Len(raw.items) |-> ParseItem(raw.items[i])]

\* const randomPos = () => ({ x: floor(random * 80) + 10, y: floor(random * 70) + 15 })
randomPos(r1, r2) == [x |-> (r1 * 80) \div 100 + 10, y |-> (r2 * 70) \div 100 + 15]

\* one item created by addAllCartToRoom; rnd are the draws of Math.random
CreatedItem(ci, rnd) ==
  [id |-> << ci.key, rnd >>, label |-> ci.label, cat |-> ci.cat, icon |-> ci.icon,
   pos |-> randomPos(rnd, rnd), price |-> ci.price]

SavedItem == CreatedItem(CATALOG["tv"], 50)

\* prev.find(p => p.key === key)
InCart(cart, key) == \E i \in 1..Len(cart) : cart[i].key = key

\* prev.map(p => p.key === key ? { ...p, qty: f(p.qty) } : p)
MapQty(cart, key, d) ==
  [i \in 1..Len(cart) |->
     IF cart[i].key = key THEN [cart[i] EXCEPT !.qty = @ + d] ELSE cart[i]]

\* prev.filter(i => i.key !== key)
RECURSIVE FilterOut(_, _)
FilterOut(seq, drop) ==
  IF seq = <<>> THEN <<>>
  ELSE IF drop[1] = "key" /\ Head(seq).key = drop[2] THEN FilterOut(Tail(seq), drop)
  ELSE IF drop[1] = "id" /\ Head(seq).id = drop[2] THEN FilterOut(Tail(seq), drop)
  ELSE << Head(seq) >> \o FilterOut(Tail(seq), drop)

\* a pending setTimeout(() => setBurst(null), ms), set by the action that
\* showed the burst
Timer(ms, burst) == [ms |-> ms, burst |-> burst]

\* addToCart(catalogItem)
addToCart(q, ci) ==
  [q EXCEPT
     !.cart = IF InCart(q.cart, ci.key)
                THEN MapQty(q.cart, ci.key, 1)
                ELSE << [key |-> ci.key, label |-> ci.label, cat |-> ci.cat,
                         icon |-> ci.icon, price |-> ci.price, qty |-> 1] >> \o q.cart,
     !.burst = "cart",
     !.timers = Append(@, Timer(600, "cart"))]

\* removeFromCart(key)
removeFromCart(q, key) == [q EXCEPT !.cart = FilterOut(q.cart, << "key", key >>)]

\* the "-" button without Math.max: qty: p.qty - 1
minusQtyUnclamped(q, key) == [q EXCEPT !.cart = MapQty(q.cart, key, -1)]

\* the "-" button: qty: Math.max(1, p.qty - 1)
minusQty(q, key) ==
  [q EXCEPT !.cart = [i \in 1..Len(q.cart) |->
                        IF q.cart[i].key = key /\ q.cart[i].qty > 1
                          THEN [q.cart[i] EXCEPT !.qty = @ - 1]
                          ELSE q.cart[i]]]

\* the "+" button
plusQty(q, key) == [q EXCEPT !.cart = MapQty(q.cart, key, 1)]

\* const cartTotal = cart.reduce((s, it) => s + (it.price * it.qty), 0)
RECURSIVE cartTotal(_)
cartTotal(cart) ==
  IF cart = <<>> THEN 0
  ELSE cartTotal(SubSeq(cart, 1, Len(cart) - 1))
         + cart[Len(cart)].price * cart[Len(cart)].qty

\* addAllCartToRoom creating one item per cart entry, whatever its qty
RECURSIVE CreatedOnePerEntry(_, _)
CreatedOnePerEntry(cart, rnd) ==
  IF cart = <<>> THEN <<>>
  ELSE << CreatedItem(Head(cart), rnd) >> \o CreatedOnePerEntry(Tail(cart), rnd)

\* the items addAllCartToRoom creates: qty items per cart entry, in cart order
RECURSIVE Created(_, _)
Created(cart, rnd) ==
  IF cart = <<>> THEN <<>>
  ELSE [i \in 1..Head(cart).qty |-> CreatedItem(Head(cart), rnd)] \o Created(Tail(cart), rnd)

\* addAllCartToRoom()
addAllCartToRoom(q, rnd) ==
  IF Len(q.cart) = 0 THEN q
  ELSE [q EXCEPT
          !.previewItems = Created(q.cart, rnd) \o @,
          !.cart = <<>>,
          !.burst = "sparkles",
          !.timers = Append(@, Timer(700, "sparkles"))]

\* savePreviewToLocal()
savePreviewToLocal(q, setItemThrows) ==
  IF setItemThrows THEN q
  ELSE [q EXCEPT
          !.storage[StorageKey(q.roomType)] = Stringify(q.previewItems),
          !.wrote = @ \cup {StorageKey(q.roomType)},
          !.saved = [kind |-> "list", items |-> q.previewItems],
          !.burst = "disk",
          !.timers = Append(@, Timer(700, "disk"))]

\* removePreviewItem(id)
removePreviewItem(q, id) ==
  [q EXCEPT !.previewItems = FilterOut(q.previewItems, << "id", id >>)]

\* resetAll()
resetAll(q) == [q EXCEPT !.previewItems = <<>>, !.cart = <<>>, !.burst = "null"]

\* the load effect of the mount: if (raw) setPreviewItems(JSON.parse(raw))
LoadPreview(q) ==
  LET raw == q.storage[StorageKey(q.roomType)]
  IN CASE raw.kind = "absent" -> q
       [] raw.kind = "invalid" -> q
       [] raw.kind = "throws" -> q
       [] raw.kind = "array" -> [q EXCEPT !.previewItems = JsonParse(raw)]
       [] raw.kind = "object" -> [q EXCEPT !.previewItems = <<>>, !.isList = FALSE]


\* commitToApp(): calls the parent's onSave when it is a function
commitToApp(q, onSave, setItemThrows) ==
  IF onSave
    THEN [q EXCEPT !.calls = @ \o << "onSave" >>, !.burst = "check",
                 !.timers = Append(@, Timer(700, "check"))]
    ELSE savePreviewToLocal(q, setItemThrows)

\* what the Save / Save locally buttons run
SaveButton(q, onSave, setItemThrows) == savePreviewToLocal(q, setItemThrows)

\* what the Close button runs: the onClose prop
CloseButton(q) == [q EXCEPT !.calls = @ \o << "onClose" >>]

\* the editor after its first render and load effect, over a given localStorage;
\* saved: the preview of the last Save that succeeded, fresh: no event since
MountedOver(storage, saved) ==
  LoadPreview([roomType |-> "Living Room", previewItems |-> <<>>, isList |-> TRUE,
               cart |-> <<>>, burst |-> "null", timers |-> <<>>,
               storage |-> storage,
               calls |-> <<>>, wrote |-> {}, saved |-> saved, fresh |-> TRUE])

NeverSaved == [kind |-> "none", items |-> <<>>]

MountedQuick(stored) ==
  MountedOver([k \in StorageKeys |-> IF k = OtherKey THEN NotJson ELSE stored],
              NeverSaved)

\* the record of an event starts empty
Event(q) == [q EXCEPT !.calls = <<>>, !.wrote = {}, !.fresh = FALSE]

QuickLive == panel = "quick" /\ quick.isList

QAddToCart ==
  /\ QuickLive
  /\ Len(quick.timers) < MaxTimers
  /\ \E k \in ClickedKeys :
       /\ \A i \in 1..Len(quick.cart) : quick.cart[i].key = k => quick.cart[i].qty < MaxQty
       /\ quick' = addToCart(Event(quick), CATALOG[k])
  /\ UNCHANGED << viewerVars, panel, hasOnSave, game, furn, interior, gltfView >>

QPlus ==
  /\ QuickLive
  /\ \E i \in 1..Len(quick.cart) :
       /\ quick.cart[i].qty < MaxQty
       /\ quick' = plusQty(Event(quick), quick.cart[i].key)
  /\ UNCHANGED << viewerVars, panel, hasOnSave, game, furn, interior, gltfView >>

QMinus ==
  /\ QuickLive
  /\ \E i \in 1..Len(quick.cart) :
       quick' = minusQty(Event(quick), quick.cart[i].key)
  /\ UNCHANGED << viewerVars, panel, hasOnSave, game, furn, interior, gltfView >>

QRemoveFromCart ==
  /\ QuickLive
  /\ \E i \in 1..Len(quick.cart) :
       quick' = removeFromCart(Event(quick), quick.cart[i].key)
  /\ UNCHANGED << viewerVars, panel, hasOnSave, game, furn, interior, gltfView >>

CartCount(cart) ==
  LET RECURSIVE Sum(_)
      Sum(c) == IF c = <<>> THEN 0 ELSE Head(c).qty + Sum(Tail(c))
  IN Sum(cart)

QAddAllCartToRoom ==
  /\ QuickLive
  /\ Len(quick.timers) < MaxTimers
  /\ Len(quick.previewItems) + CartCount(quick.cart) <= MaxPreview
  /\ \E rnd \in RandomSamples :
       quick' = addAllCartToRoom(Event(quick), rnd)
  /\ UNCHANGED << viewerVars, panel, hasOnSave, game, furn, interior, gltfView >>

QSave ==
  /\ QuickLive
  /\ Len(quick.timers) < MaxTimers
  /\ \E setItemThrows \in BOOLEAN :
       quick' = SaveButton(Event(quick), hasOnSave, setItemThrows)
  /\ UNCHANGED << viewerVars, panel, hasOnSave, game, furn, interior, gltfView >>

QReset ==
  /\ QuickLive
  /\ quick' = resetAll(Event(quick))
  /\ UNCHANGED << viewerVars, panel, hasOnSave, game, furn, interior, gltfView >>

QDoubleClickItem ==
  /\ QuickLive
  /\ \E i \in 1..Len(quick.previewItems) :
       quick' = removePreviewItem(Event(quick), quick.previewItems[i].id)
  /\ UNCHANGED << viewerVars, panel, hasOnSave, game, furn, interior, gltfView >>

QClose ==
  /\ QuickLive
  /\ quick' = CloseButton(Event(quick))
  /\ UNCHANGED << viewerVars, panel, hasOnSave, game, furn, interior, gltfView >>

\* the parent unmounts the editor and mounts it again: new state, same storage
QRemount ==
  /\ panel = "quick"
  /\ quick' = MountedOver(quick.storage, quick.saved)
  /\ UNCHANGED << viewerVars, panel, hasOnSave, game, furn, interior, gltfView >>

\* timer i can be the next to expire: no timer set before it has a delay that
\* is not longer
CanExpire(timers, i) == \A j \in 1..(i - 1) : timers[j].ms > timers[i].ms

\* the callback of a timer: () => setBurst(null)
TimerFires(q, i) ==
  [q EXCEPT !.burst = "null",
            !.timers = SubSeq(@, 1, i - 1) \o SubSeq(@, i + 1, Len(@))]

\* a pending setTimeout(() => setBurst(null), ...) expires
QTimer ==
  /\ QuickLive
  /\ \E i \in 1..Len(quick.timers) :
       /\ CanExpire(quick.timers, i)
       /\ quick' = TimerFires(Event(quick), i)
  /\ UNCHANGED << viewerVars, panel, hasOnSave, game, furn, interior, gltfView >>


\* DEFAULT_ITEMS of RoomQuickEditor
GameCats == << "Seating", "Tables", "Bedroom", "Decor" >>

DEFAULT_ITEMS ==
  [c \in {"Seating", "Tables", "Bedroom", "Decor"} |->
     CASE c = "Seating" -> << "Sofa", "Armchair", "Bean Bag" >>
       [] c = "Tables" -> << "Coffee Table", "Side Table" >>
       [] c = "Bedroom" -> << "Bed", "Nightstand" >>
       [] c = "Decor" -> << "Rug", "Painting", "Plant" >>]

\* list[Math.floor(Math.random() * list.length)], r in hundredths
RandomPick(list, r) == list[(r * Len(list)) \div 100 + 1]

GameRoomTypes == {"Living Room", "Bedroom"}
Stamps == {1, 2}

\* addRandomItem(); r1, r2 are the draws of Math.random, now is Date.now()
addRandomItem(g, r1, r2, now) ==
  LET cat == RandomPick(GameCats, r1)
      pick == RandomPick(DEFAULT_ITEMS[cat], r2)
      id == << pick, now >>
  IN [g EXCEPT
        !.gameItems = << [id |-> id, label |-> pick, cat |-> cat, born |-> now] >> \o @,
        !.score = @ + 10,
        !.burst = "emoji",
        !.timers = @ + 1]

\* removeItem(id)
removeItem(g, id) ==
  [g EXCEPT
     !.gameItems = FilterOut(@, << "id", id >>),
     !.score = IF @ - 5 > 0 THEN @ - 5 ELSE 0]

\* resetGame()
resetGame(g) == [g EXCEPT !.gameItems = <<>>, !.score = 0, !.burst = "null"]

MountedGame ==
  [roomType |-> "Living Room", gameItems |-> <<>>, score |-> 0, burst |-> "null",
   timers |-> 0, calls |-> <<>>, wrote |-> {}, fresh |-> TRUE]

GameLive == panel = "game"

\* Date.now() never runs backwards
LatestStamp(items) ==
  IF items = <<>> THEN 1 ELSE Head(items).born

GAddRandomItem ==
  /\ GameLive
  /\ game.timers < MaxTimers
  /\ Len(game.gameItems) < MaxGame
  /\ game.score + 10 <= MaxScore
  /\ \E r1 \in RandomSamples, r2 \in RandomSamples, now \in Stamps :
       /\ now >= LatestStamp(game.gameItems)
       /\ game' = addRandomItem(Event(game), r1, r2, now)
  /\ UNCHANGED << viewerVars, panel, hasOnSave, quick, furn, interior, gltfView >>

GRemoveItem ==
  /\ GameLive
  /\ \E i \in 1..Len(game.gameItems) :
       game' = removeItem(Event(game), game.gameItems[i].id)
  /\ UNCHANGED << viewerVars, panel, hasOnSave, quick, furn, interior, gltfView >>

GReset ==
  /\ GameLive
  /\ game' = resetGame(Event(game))
  /\ UNCHANGED << viewerVars, panel, hasOnSave, quick, furn, interior, gltfView >>

\* the room type select: setRoomType(e.target.value)
GChangeRoomType ==
  /\ GameLive
  /\ \E t \in GameRoomTypes :
       game' = [Event(game) EXCEPT !.roomType = t]
  /\ UNCHANGED << viewerVars, panel, hasOnSave, quick, furn, interior, gltfView >>

GClose ==
  /\ GameLive
  /\ game' = CloseButton(Event(game))
  /\ UNCHANGED << viewerVars, panel, hasOnSave, quick, furn, interior, gltfView >>

GTimer ==
  /\ GameLive
  /\ game.timers > 0
  /\ game' = [Event(game) EXCEPT !.burst = "null", !.timers = @ - 1]
  /\ UNCHANGED << viewerVars, panel, hasOnSave, quick, furn, interior, gltfView >>

\* ------------------------------------------------------------------------
\* The furniture edit panels: RoomEditMenu, RoomEditUI, RoomFurnitureEditor
\* ------------------------------------------------------------------------
\* categories of RoomEditMenu
MenuCategories ==
  [c \in {"Living Room", "Bedroom", "Kitchen", "Office", "Decor"} |->
     CASE c = "Living Room" -> << "Sofa", "Coffee Table", "TV Stand", "Chair", "Rug" >>
       [] c = "Bedroom" -> << "Bed", "Wardrobe", "Nightstand", "Dresser" >>
       [] c = "Kitchen" -> << "Counter", "Dining Table", "Chairs", "Cabinet" >>
       [] c = "Office" -> << "Desk", "Office Chair", "Bookshelf", "Filing Cabinet" >>
       [] c = "Decor" -> << "Plant", "Painting", "Lamp", "Mirror" >>]

\* FURNITURE_ITEMS, which RoomEditUI reads
FURNITURE_ITEMS ==
  [c \in {"living", "bedroom", "kitchen", "bathroom", "office"} |->
     CASE c = "living" -> << "Sofa", "Coffee Table", "TV Stand", "Armchair", "Rug" >>
       [] c = "bedroom" -> << "Bed", "Wardrobe", "Nightstand", "Dresser" >>
       [] c = "kitchen" -> << "Kitchen Counter", "Dining Table", "Chair", "Refrigerator" >>
       [] c = "bathroom" -> << "Bathtub", "Sink", "Toilet", "Mirror" >>
       [] c = "office" -> << "Desk", "Office Chair", "Bookshelf", "Filing Cabinet" >>]

\* FURNITURE_CATEGORIES of RoomFurnitureEditor
FURNITURE_CATEGORIES ==
  [c \in {"seating", "tables", "bedroom", "decor"} |->
     CASE c = "seating" -> << "Sofa", "Chair", "Armchair" >>
       [] c = "tables" -> << "Coffee Table", "Dining Table", "Side Table" >>
       [] c = "bedroom" -> << "Bed", "Dresser", "Nightstand" >>
       [] c = "decor" -> << "Rug", "Painting", "Plant" >>]

PanelNames == {"RoomEditMenu", "RoomEditUI", "RoomFurnitureEditor"}

\* the selectedRoom prop of the panels
PanelRooms == {Unset, "A"}

NoCategory == "<null>"

\* a panel after its first render.  RoomEditUI reads FURNITURE_ITEMS, which its
\* file neither defines nor imports: inScope tells whether the build resolves
\* the name; when it does not, the render throws a ReferenceError.
MountedPanel(name, cb, room, inScope) ==
  [name |-> name, hasOnAddFurniture |-> cb, selectedRoom |-> room,
   selectedCategory |-> CASE name = "RoomEditUI" -> "living"
                          [] name = "RoomFurnitureEditor" -> NoCategory
                          [] OTHER -> NoCategory,
   inScope |-> inScope,
   click |-> << >>, calls |-> << >>,
   error |-> IF name = "RoomEditUI" /\ ~inScope THEN "ReferenceError" ELSE "none"]

NoFurniturePanel ==
  [name |-> "none", hasOnAddFurniture |-> FALSE, selectedRoom |-> Unset,
   selectedCategory |-> NoCategory, inScope |-> TRUE,
   click |-> << >>, calls |-> << >>, error |-> "none"]

\* the panel renders its buttons
PanelLive == furn.name \in PanelNames /\ furn.error # "ReferenceError"

\* the Add buttons the panel shows: << category, item >>
AddButtons(f) ==
  CASE f.name = "RoomEditMenu" ->
         IF f.selectedRoom = Unset THEN {}
         ELSE UNION {{<< c, MenuCategories[c][i] >> : i \in 1..Len(MenuCategories[c])} :
                       c \in DOMAIN MenuCategories}
    [] f.name = "RoomEditUI" ->
         {<< f.selectedCategory, FURNITURE_ITEMS[f.selectedCategory][i] >> :
            i \in 1..Len(FURNITURE_ITEMS[f.selectedCategory])}
    [] f.name = "RoomFurnitureEditor" ->
         IF f.selectedCategory = NoCategory THEN {}
         ELSE {<< f.selectedCategory, FURNITURE_CATEGORIES[f.selectedCategory][i] >> :
                 i \in 1..Len(FURNITURE_CATEGORIES[f.selectedCategory])}

\* RoomEditMenu: onAddFurniture && onAddFurniture(selectedRoom, item)
RoomEditMenuClick(f, b) ==
  IF f.hasOnAddFurniture
    THEN [f EXCEPT !.click = b, !.calls = << << f.selectedRoom, b[2] >> >>, !.error = "none"]
    ELSE [f EXCEPT !.click = b, !.calls = << >>, !.error = "none"]

\* RoomEditUI: onAddFurniture(selectedCategory, item)
RoomEditUIClick(f, b) ==
  IF f.hasOnAddFurniture
    THEN [f EXCEPT !.click = b, !.calls = << << f.selectedCategory, b[2] >> >>, !.error = "none"]
    ELSE [f EXCEPT !.click = b, !.calls = << >>, !.error = "TypeError"]

\* RoomFurnitureEditor: onAddFurniture(selectedCategory, item)
RoomFurnitureEditorClick(f, b) ==
  IF f.hasOnAddFurniture
    THEN [f EXCEPT !.click = b, !.calls = << << f.selectedCategory, b[2] >> >>, !.error = "none"]
    ELSE [f EXCEPT !.click = b, !.calls = << >>, !.error = "TypeError"]

\* the categories the panel lets the user select
Selectable(f) ==
  CASE f.name = "RoomEditUI" -> DOMAIN FURNITURE_ITEMS
    [] f.name = "RoomFurnitureEditor" -> DOMAIN FURNITURE_CATEGORIES
    [] OTHER -> {}

\* clicking an Add / item button
PClickAdd ==
  /\ PanelLive
  /\ \E b \in AddButtons(furn) :
       furn' = CASE furn.name = "RoomEditMenu" -> RoomEditMenuClick(furn, b)
                 [] furn.name = "RoomEditUI" -> RoomEditUIClick(furn, b)
                 [] furn.name = "RoomFurnitureEditor" -> RoomFurnitureEditorClick(furn, b)
  /\ UNCHANGED << viewerVars, panel, hasOnSave, quick, game, interior, gltfView >>

\* setSelectedCategory(category)
PSelectCategory ==
  /\ PanelLive
  /\ \E c \in Selectable(furn) :
       furn' = [furn EXCEPT !.selectedCategory = c, !.click = << >>,
                            !.calls = << >>, !.error = "none"]
  /\ UNCHANGED << viewerVars, panel, hasOnSave, quick, game, interior, gltfView >>

\* the parent renders the panel with another selectedRoom or onAddFurniture
PChangeProps ==
  /\ PanelLive
  /\ \E cb \in BOOLEAN, room \in PanelRooms :
       /\ << cb, room >> # << furn.hasOnAddFurniture, furn.selectedRoom >>
       /\ furn' = [furn EXCEPT !.hasOnAddFurniture = cb, !.selectedRoom = room,
                               !.click = << >>, !.calls = << >>, !.error = "none"]
  /\ UNCHANGED << viewerVars, panel, hasOnSave, quick, game, interior, gltfView >>
\* ------------------------------------------------------------------------
\* SceneInner's furniture: RoomInterior, externalFurniture, the glTF models
\* ------------------------------------------------------------------------
\* room names, character by character (RoomInterior tests them with regexes)
N_FamilyBathroom == << "F", "a", "m", "i", "l", "y", " ", "B", "a", "t", "h", "r", "o", "o", "m" >>
N_WC == << "W", "C" >>
N_LivingKitchen == << "L", "i", "v", "i", "n", "g", " ", "K", "i", "t", "c", "h", "e", "n" >>
N_MasterSuiteLounge == << "M", "a", "s", "t", "e", "r", " ", "S", "u", "i", "t", "e", " ", "L", "o", "u", "n", "g", "e" >>
N_MasterBedroomKitchen == << "M", "a", "s", "t", "e", "r", " ", "B", "e", "d", "r", "o", "o", "m", " ", "K", "i", "t", "c", "h", "e", "n" >>
N_MasterSuite == << "M", "a", "s", "t", "e", "r", " ", "S", "u", "i", "t", "e" >>
N_KITCHEN == << "K", "I", "T", "C", "H", "E", "N" >>
N_Bedroom == << "B", "e", "d", "r", "o", "o", "m" >>
N_Study == << "S", "t", "u", "d", "y" >>
N_kitchen == << "k", "i", "t", "c", "h", "e", "n" >>
N_Empty == << >>

RoomNames ==
  { N_FamilyBathroom, N_WC, N_LivingKitchen, N_MasterSuiteLounge,
    N_MasterBedroomKitchen, N_MasterSuite, N_KITCHEN, N_Bedroom, N_Study,
    N_Empty }

\* the layouts of this scene: one room, or two rooms of different names
RoomLists ==
  { << n >> : n \in RoomNames }
    \cup { << N_Study, N_KITCHEN >>, << N_WC, N_LivingKitchen >>,
           << N_MasterSuite, N_Bedroom >> }

\* String.prototype.includes: sub occurs in s
includes(s, sub) ==
  \E i \in 1..(Len(s) - Len(sub) + 1) : SubSeq(s, i, i + Len(sub) - 1) = sub

\* RegExp.prototype.test for an alternation of literals
test(alternatives, s) == \E sub \in alternatives : includes(s, sub)

BathRegex == { << "b", "a", "t", "h" >>,
               << "t", "o", "i", "l", "e", "t" >>,
               << "w", "c" >> }
LivingRegex == { << "l", "i", "v", "i", "n", "g" >>,
                 << "l", "o", "u", "n", "g", "e" >>,
                 << "l", "i", "v", "i", "n", "g", " ", "r", "o", "o", "m" >>,
                 << "f", "a", "m", "i", "l", "y" >> }
MasterRegex == { << "m", "a", "s", "t", "e", "r", " ", "s", "u", "i", "t", "e" >>,
                 << "m", "a", "s", "t", "e", "r", " ", "b", "e", "d", "r", "o", "o", "m" >> }
KitchenRegex == { << "k", "i", "t", "c", "h", "e", "n" >> }

\* the same selection with the kitchen test ahead of the living-room test
FurnitureSetKitchenFirst(name) ==
  IF test(BathRegex, name) THEN "bathroom"
  ELSE IF test(KitchenRegex, name) THEN "kitchen"
  ELSE IF test(LivingRegex, name) THEN "living"
  ELSE IF test(MasterRegex, name) THEN "master"
  ELSE "generic"

\* the furniture group RoomInterior picks for a lower-cased name
FurnitureSetOf(name) ==
  IF test(BathRegex, name) THEN "bathroom"
  ELSE IF test(LivingRegex, name) THEN "living"
  ELSE IF test(MasterRegex, name) THEN "master"
  ELSE IF test(KitchenRegex, name) THEN "kitchen"
  ELSE "generic"

\* the model files SceneInner asks for, and the pieces that can be a glTF
Models == {"sofa", "tv", "toilet"}

SlotsOf(set) ==
  CASE set = "bathroom" -> {"toilet"}
    [] set = "living" -> {"tv"}
    [] set = "generic" -> {"sofa", "tv"}
    [] OTHER -> {}

\* useLoader(GLTFLoader, file): the model when the file has loaded; while it is
\* loading it throws the pending promise, after a failure it throws the error
useLoader(status) ==
  IF status = "loaded" THEN [threw |-> FALSE, value |-> "gltf"]
  ELSE [threw |-> TRUE, value |-> "null"]

\* try { return useLoader(...) } catch { return null }
LoadOrNull(status) ==
  IF useLoader(status).threw THEN "null" ELSE useLoader(status).value

\* useMemo(..., []) on the render that mounts SceneInner
MemoOnMount(files) == [m \in Models |-> LoadOrNull(files[m])]

\* externalFurniture: undefined, or item ids by room name
NoExternal == [defined |-> FALSE, at |-> << >>]
External(f) == [defined |-> TRUE, at |-> f]

ExternalChoices ==
  { NoExternal,
    External(N_Study :> << "f1" >>),
    External(N_kitchen :> << "f2" >>),
    External(N_WC :> << "f3" >> @@ N_KITCHEN :> << "f4", "f5" >>) }

\* (externalFurniture && externalFurniture[room.name] || [])
ExternalOf(ext, name) ==
  IF ext.defined /\ name \in DOMAIN ext.at THEN ext.at[name] ELSE << >>

\* what RoomInterior renders of furniture for one room
RoomInterior(name, rm, gltf) ==
  IF rm = "furnished"
    THEN LET set == FurnitureSetOf(toLowerCase(name))
         IN [ sets |-> {set},
              slots |-> [p \in SlotsOf(set) |->
                           IF gltf[p] # "null" THEN "gltf" ELSE "procedural"] ]
    ELSE [ sets |-> {}, slots |-> << >> ]

\* one room's group: SchematicGroup has neither interior nor external furniture
GroupContents(name, rm, ext, gltf) ==
  IF rm = "schematic"
    THEN [ sets |-> {}, slots |-> << >>, external |-> << >> ]
    ELSE [ sets |-> RoomInterior(name, rm, gltf).sets,
           slots |-> RoomInterior(name, rm, gltf).slots,
           external |-> ExternalOf(ext, name) ]

Frame(rooms, rm, ext, gltf) ==
  [i \in 1..Len(rooms) |-> GroupContents(rooms[i], rm, ext, gltf)]

\* a render of the mounted SceneInner: the memoised glTFs are kept; every file
\* that had loaded by now has been passed by a render
Rendered(s) ==
  [s EXCEPT !.frame = Frame(s.rooms, s.renderMode, s.externalFurniture, s.gltf),
            !.renderedSince = [m \in Models |-> s.files[m] = "loaded"]]

MountedInterior(rooms, files) ==
  Rendered([ rooms |-> rooms, renderMode |-> "furnished",
             externalFurniture |-> NoExternal, files |-> files,
             gltf |-> MemoOnMount(files), error |-> FALSE,
             frame |-> << >>, renderedSince |-> [m \in Models |-> FALSE] ])

NoInterior == MountedInterior(<< >>, [m \in Models |-> "loading"])


\* ------------------------------------------------------------------------
\* ThreeDViewer showing a glTF file: GLTFModel, modelTarget, OrbitControls
\* ------------------------------------------------------------------------
Vec(x, y, z) == [x |-> x, y |-> y, z |-> z]

VecAdd(a, b) == Vec(a.x + b.x, a.y + b.y, a.z + b.z)

\* new THREE.Vector3(0, 0, 0), the first modelTarget and the controls' target
Origin == Vec(0, 0, 0)

\* camera={{ position: [4, 3, 8] }} and the offset of the modelTarget effect
CameraStart == Vec(4, 3, 8)
CameraOffset == Vec(4, 3, 8)

\* the centres of the bounding boxes of the model files
Centres == {Origin, Vec(1, 2, -1), Vec(-3, 0, 5), Vec(0, 1, 0), Vec(2, 2, 2)}

GltfUrls == {"a.glb", "b.gltf"}

\* where the user can leave the orbit controls: target and camera
OrbitPoses == {<< Vec(0, 1, 0), Vec(6, 4, 2) >>, << Vec(1, 1, 1), Vec(-5, 3, 9) >>}

\* the hooks one render of ThreeDViewer runs from the controls refs on: the
\* two effects stand after the `if (isGLTF) return`
ViewerHooks(gltf) ==
  << "useRef gltfControlsRef", "useRef demoControlsRef", "useState modelTarget" >>
    \o (IF gltf THEN << >>
        ELSE << "useEffect modelTarget", "useEffect demoControls" >>)

\* a render committed: the modelTarget effect, when this render ran its hook
\* and its deps [isGLTF, modelTarget] changed
ModelTargetEffect(g, gltf, depsChanged) ==
  IF /\ \E h \in 1..Len(ViewerHooks(gltf)) : ViewerHooks(gltf)[h] = "useEffect modelTarget"
     /\ depsChanged
     /\ gltf
     /\ g.controls
    THEN [g EXCEPT !.target = g.modelTarget,
                   !.camera = VecAdd(g.modelTarget, CameraOffset)]
    ELSE g

\* the viewer mounted with a glTF url: the model is loading under Suspense
MountedGltf(url) ==
  ModelTargetEffect(
    [ url |-> url, renderMode |-> "furnished", status |-> "loading",
      modelTarget |-> Origin, controls |-> TRUE, target |-> Origin,
      camera |-> CameraStart, op |-> "mount" ],
    TRUE, TRUE)

NoGltfView == MountedGltf("a.glb")

\* ------------------------------------------------------------------------
\* Specifications
\* ------------------------------------------------------------------------
\* no quick editor is open
EditorsIdle ==
  /\ panel = "none"
  /\ hasOnSave = FALSE
  /\ quick = MountedQuick(Absent)
  /\ game = MountedGame
  /\ furn = NoFurniturePanel
  /\ interior = NoInterior
  /\ gltfView = NoGltfView

\* the room scene with the layout prop: layouts, selection, transforms
Init ==
  \E lay \in Layouts, sel \in SelectableNames, md \in Modes, sn \in Snaps, cb \in BOOLEAN :
    /\ Mounted(NullPath, lay, sel, md, sn, cb)
    /\ EditorsIdle

Next ==
  \/ ChangeLayout(Layouts)
  \/ ChangeSelection(SelectableNames)
  \/ ChangeMode
  \/ ChangeSnap
  \/ ChangeOnTransformEnd
  \/ Drag
  \/ MouseUp

Spec == Init /\ [][Next]_vars

\* the viewer over all model paths
ViewLayouts == {<<R_C>>, <<R_B, R_C>>}
ViewNames == {Unset, "C", "Kitchen"}

InitView ==
  \E mp \in ModelPaths, lay \in ViewLayouts, sel \in ViewNames :
    /\ Mounted(mp, lay, sel, "translate", 0, TRUE)
    /\ EditorsIdle

NextView ==
  \/ ChangeModelPath
  \/ ChangeLayout(ViewLayouts)
  \/ ChangeSelection(ViewNames)
  \/ ClickFurnished
  \/ ClickSchematic
  \/ ClickPreview
  \/ ClickClosePreview
  \/ ClickRoom
  \/ Drag
  \/ MouseUp
  \/ Capture

SpecView == InitView /\ [][NextView]_vars

\* transforms of rooms, one of them with the empty string as its name
GuardLayouts == {<< R_E >>, << R_B, R_E >>, << R_B >>}
GuardNames == {Unset, "", "B"}

InitGuard ==
  \E lay \in GuardLayouts, sel \in GuardNames, md \in Modes :
    /\ Mounted(NullPath, lay, sel, md, 0, TRUE)
    /\ EditorsIdle

NextGuard ==
  \/ ChangeLayout(GuardLayouts)
  \/ ChangeSelection(GuardNames)
  \/ ChangeOnTransformEnd
  \/ Drag
  \/ MouseUp

SpecGuard == InitGuard /\ [][NextGuard]_vars

\* selection changes and render-mode toggles over an unchanged layout, no drag
InitRemount ==
  \E lay \in Layouts, sel \in SelectableNames, md \in Modes :
    /\ Mounted(NullPath, lay, sel, md, 0, TRUE)
    /\ EditorsIdle

NextRemount ==
  \/ ChangeSelection(SelectableNames)
  \/ ChangeMode
  \/ ClickFurnished
  \/ ClickSchematic
  \/ MouseUp

SpecRemount == InitRemount /\ [][NextRemount]_vars


\* the two quick editors, one of them open
StoredValues == {Absent, NotJson, Unreadable, JsonObject, Stringify(<< SavedItem >>)}

InitEditor ==
  /\ Mounted(NullPath, <<>>, Unset, "translate", 0, FALSE)
  /\ furn = NoFurniturePanel
  /\ interior = NoInterior
  /\ gltfView = NoGltfView
  /\ \/ /\ panel = "quick"
        /\ hasOnSave = TRUE
        /\ \E stored \in StoredValues : quick = MountedQuick(stored)
        /\ game = MountedGame
     \/ /\ panel = "game"
        /\ hasOnSave = FALSE
        /\ quick = MountedQuick(Absent)
        /\ game = MountedGame

NextEditor ==
  \/ QAddToCart
  \/ QPlus
  \/ QMinus
  \/ QRemoveFromCart
  \/ QAddAllCartToRoom
  \/ QSave
  \/ QReset
  \/ QDoubleClickItem
  \/ QClose
  \/ QRemount
  \/ QTimer
  \/ GAddRandomItem
  \/ GRemoveItem
  \/ GReset
  \/ GChangeRoomType
  \/ GClose
  \/ GTimer

SpecEditor == InitEditor /\ [][NextEditor]_vars

\* one of the three furniture edit panels, open
InitPanels ==
  /\ Mounted(NullPath, <<>>, Unset, "translate", 0, FALSE)
  /\ panel = "none"
  /\ hasOnSave = FALSE
  /\ quick = MountedQuick(Absent)
  /\ game = MountedGame
  /\ \E name \in PanelNames, cb \in BOOLEAN, room \in PanelRooms, inScope \in BOOLEAN :
       /\ (name # "RoomEditUI" => inScope)
       /\ furn = MountedPanel(name, cb, room, inScope)
  /\ interior = NoInterior
  /\ gltfView = NoGltfView

NextPanels ==
  \/ PClickAdd
  \/ PSelectCategory
  \/ PChangeProps

SpecPanels == InitPanels /\ [][NextPanels]_vars


\* the furniture scene: rooms by name, render mode, external furniture, files
\* the layout prop changes
IChangeRooms ==
  /\ \E rooms \in RoomLists :
       /\ rooms # interior.rooms
       /\ interior' = Rendered([interior EXCEPT !.rooms = rooms])
  /\ UNCHANGED << viewerVars, panel, hasOnSave, quick, game, furn, gltfView >>

\* a click on Furnished or Schematic
ISetRenderMode ==
  /\ \E rm \in {"furnished", "schematic"} :
       /\ rm # interior.renderMode
       /\ interior' = Rendered([interior EXCEPT !.renderMode = rm])
  /\ UNCHANGED << viewerVars, panel, hasOnSave, quick, game, furn, gltfView >>

\* the externalFurniture prop changes
IChangeExternal ==
  /\ \E ext \in ExternalChoices :
       /\ ext # interior.externalFurniture
       /\ interior' = Rendered([interior EXCEPT !.externalFurniture = ext])
  /\ UNCHANGED << viewerVars, panel, hasOnSave, quick, game, furn, gltfView >>

\* a model file finishes loading: the loader's cache is filled, no component
\* state changes, nothing renders
ILoaded ==
  /\ \E m \in Models :
       /\ interior.files[m] = "loading"
       /\ interior' = [interior EXCEPT !.files[m] = "loaded",
                                       !.renderedSince[m] = FALSE]
  /\ UNCHANGED << viewerVars, panel, hasOnSave, quick, game, furn, gltfView >>

\* a model file fails to load
ILoadFailed ==
  /\ \E m \in Models :
       /\ interior.files[m] = "loading"
       /\ interior' = [interior EXCEPT !.files[m] = "failed"]
  /\ UNCHANGED << viewerVars, panel, hasOnSave, quick, game, furn, gltfView >>

\* SceneInner is unmounted and mounted again (the view left the rooms and came
\* back): useMemo runs anew against the loader's cache
IRemount ==
  /\ interior' = Rendered([interior EXCEPT !.gltf = MemoOnMount(interior.files)])
  /\ interior' # interior
  /\ UNCHANGED << viewerVars, panel, hasOnSave, quick, game, furn, gltfView >>

InitInterior ==
  /\ Mounted(NullPath, <<>>, Unset, "translate", 0, FALSE)
  /\ panel = "none"
  /\ hasOnSave = FALSE
  /\ quick = MountedQuick(Absent)
  /\ game = MountedGame
  /\ furn = NoFurniturePanel
  /\ \E rooms \in RoomLists :
       interior = MountedInterior(rooms, [m \in Models |-> "loading"])
  /\ gltfView = NoGltfView

NextInterior ==
  \/ IChangeRooms
  \/ ISetRenderMode
  \/ IChangeExternal
  \/ ILoaded
  \/ ILoadFailed
  \/ IRemount

SpecInterior == InitInterior /\ [][NextInterior]_vars

\* the glTF viewer
\* the file has loaded: GLTFModel renders, its effect measures the centre and
\* calls onModelCenter, setModelTarget re-renders ThreeDViewer
GModelLoaded ==
  /\ gltfView.status = "loading"
  /\ \E c \in Centres :
       gltfView' = ModelTargetEffect(
                     [gltfView EXCEPT !.status = "loaded", !.modelTarget = c,
                                      !.op = "center"],
                     TRUE, TRUE)
  /\ UNCHANGED << viewerVars, panel, hasOnSave, quick, game, furn, interior >>

\* modelPath changes to another glTF url: useLoader suspends on the new file
GChangeUrl ==
  /\ \E u \in GltfUrls \ {gltfView.url} :
       gltfView' = ModelTargetEffect(
                     [gltfView EXCEPT !.url = u, !.status = "loading", !.op = "url"],
                     TRUE, FALSE)
  /\ UNCHANGED << viewerVars, panel, hasOnSave, quick, game, furn, interior >>

\* a click on Furnished or Schematic in the glTF viewer
GSetRenderMode ==
  /\ \E rm \in {"furnished", "schematic"} \ {gltfView.renderMode} :
       gltfView' = ModelTargetEffect(
                     [gltfView EXCEPT !.renderMode = rm, !.op = "renderMode"],
                     TRUE, FALSE)
  /\ UNCHANGED << viewerVars, panel, hasOnSave, quick, game, furn, interior >>

\* the user orbits: OrbitControls moves its target and the camera
GOrbit ==
  /\ \E pose \in OrbitPoses :
       /\ << gltfView.target, gltfView.camera >> # pose
       /\ gltfView' = [gltfView EXCEPT !.target = pose[1], !.camera = pose[2],
                                       !.op = "orbit"]
  /\ UNCHANGED << viewerVars, panel, hasOnSave, quick, game, furn, interior >>

InitGltf ==
  /\ Mounted(NullPath, <<>>, Unset, "translate", 0, FALSE)
  /\ panel = "none"
  /\ hasOnSave = FALSE
  /\ quick = MountedQuick(Absent)
  /\ game = MountedGame
  /\ furn = NoFurniturePanel
  /\ interior = NoInterior
  /\ \E url \in GltfUrls : gltfView = MountedGltf(url)

NextGltf ==
  \/ GModelLoaded
  \/ GChangeUrl
  \/ GSetRenderMode
  \/ GOrbit

SpecGltf == InitGltf /\ [][NextGltf]_vars

\* the room scene under layout changes of every kind, with a parent that
\* listens for the room names
ReadyLayouts == {<<>>, <<R_A>>, <<R_B, R_A>>, <<R_A2, R_B>>, <<R_C, R_B, R_A>>}

ReadyNames == {Unset, "A", "B"}

InitReady ==
  /\ \E lay \in ReadyLayouts, sel \in ReadyNames :
       Mounted(NullPath, lay, sel, "translate", 0, TRUE)
  /\ EditorsIdle

NextReady ==
  \/ ChangeLayoutNotifying(ReadyLayouts, ReadyCallbacks)
  \/ ChangeRoomsMissing
  \/ ChangeRoomsObject
  \/ ChangeSelection(ReadyNames)
  \/ Drag
  \/ MouseUp

SpecReady == InitReady /\ [][NextReady]_vars

\* ------------------------------------------------------------------------
\* Properties
\* ------------------------------------------------------------------------
\* the size the layout gives a room, or 3 when it is missing, zero or non-numeric
LayoutSize(r) == IF r.size.k = "num" /\ r.size.v # 0 THEN r.size.v ELSE 3 * One

\* m is a multiple of q that is nearest to v
NearestMultiple(m, v, q) ==
  /\ m % q = 0
  /\ 2 * Abs(m - v) <= q

\* the room index on whose controls the last mouseUp was dispatched
UpRoom == FindRoom(sceneLayout, obs.room)

\* the last event was a mouseUp that reached the parent's onTransformEnd
Reported == obs.op = "mouseUp" /\ Len(obs.tcalls) = 1

\* the group of room i stands where the layout sync places it
AtSyncedPose(i) ==
  /\ 2 * groups[i].px = 2 * sceneLayout[i].x + LayoutSize(sceneLayout[i])
  /\ 2 * groups[i].pz = 2 * sceneLayout[i].y + LayoutSize(sceneLayout[i])

\* C1: coordinate round trip. For every layout room, when a mouseUp occurs on
\* the controls with that room selected, an onTransformEnd callback provided,
\* snap = 0 and the room's group where the layout sync placed it, onTransformEnd
\* is called with x and y equal to the room's layout x and y rounded to 3
\* decimals.
C1_RoundTrip ==
  \A i \in 1..Len(sceneLayout) :
    ( /\ obs.op = "mouseUp"
      /\ obs.room = sceneLayout[i].name
      /\ hasOnTransformEnd
      /\ snap = 0
      /\ AtSyncedPose(i) )
    => /\ Len(obs.tcalls) = 1
       /\ NearestMultiple(obs.tcalls[1].x, sceneLayout[i].x, Q3)
       /\ NearestMultiple(obs.tcalls[1].y, sceneLayout[i].y, Q3)

\* a round trip of room B (non-numeric size, y with more than 3 decimals)
C1_Witness ==
  /\ Reported
  /\ obs.room = "B"
  /\ snap = 0
  /\ UpRoom # 0
  /\ AtSyncedPose(UpRoom)
  /\ obs.tcalls[1].x = R_B.x
  /\ obs.tcalls[1].y # R_B.y

\* what the claims call the unrounded top-left coordinate of the group of room i
RawTopLeftX(i) == (2 * groups[i].px - LayoutSize(sceneLayout[i])) \div 2
RawTopLeftZ(i) == (2 * groups[i].pz - LayoutSize(sceneLayout[i])) \div 2

\* "0 when falsy", "1 when falsy"
RotationOr0(g) == IF g.ry = 0 THEN 0 ELSE g.ry
ScaleOr1(g) == IF g.sc = 0 THEN One ELSE g.sc

\* v snapped as the claims say: a nearest multiple of snap, or v when snap is 0
Snapped(m, v) == IF snap = 0 THEN m = v ELSE NearestMultiple(m, v, snap)

\* C2 (as amended): on every mouseUp of the transform controls while a room is
\* selected and its group mounted, onTransformEnd, when provided, is called
\* exactly once with the selected room's name, x and y the snapped top-left
\* coordinates rounded to 3 decimals before snapping, and rotationY and scale
\* the group's rotation about Y (0 when falsy) and x scale (1 when falsy)
\* rounded to 5 decimals; it is not called when no callback was provided.
C2_TransformEndArgs ==
  obs.op = "mouseUp" =>
    /\ UpRoom # 0
    /\ obs.room = selectedRoomName
    /\ groupRefs[selectedRoomName] = UpRoom
    /\ IF hasOnTransformEnd
         THEN /\ Len(obs.tcalls) = 1
              /\ obs.tcalls[1].name = selectedRoomName
              /\ \E x3 \in {(RawTopLeftX(UpRoom) \div Q3) * Q3,
                            (RawTopLeftX(UpRoom) \div Q3 + 1) * Q3} :
                   /\ 2 * Abs(x3 - RawTopLeftX(UpRoom)) <= Q3
                   /\ Snapped(obs.tcalls[1].x, x3)
              /\ \E y3 \in {(RawTopLeftZ(UpRoom) \div Q3) * Q3,
                            (RawTopLeftZ(UpRoom) \div Q3 + 1) * Q3} :
                   /\ 2 * Abs(y3 - RawTopLeftZ(UpRoom)) <= Q3
                   /\ Snapped(obs.tcalls[1].y, y3)
              /\ 2 * Abs(obs.tcalls[1].rotationY - RotationOr0(groups[UpRoom])) <= Q5
              /\ obs.tcalls[1].rotationY % Q5 = 0
              /\ 2 * Abs(obs.tcalls[1].scale - ScaleOr1(groups[UpRoom])) <= Q5
              /\ obs.tcalls[1].scale % Q5 = 0
         ELSE obs.tcalls = <<>>

\* a mouseUp after the group was dragged and scaled to 0: x is reported rounded
C2_Witness ==
  /\ Reported
  /\ groups[UpRoom].sc = 0
  /\ obs.tcalls[1].scale = One
  /\ obs.tcalls[1].x # RawTopLeftX(UpRoom)
  /\ ~AtSyncedPose(UpRoom)

\* C2 as stated: x = snap(group.position.x - size/2), y = snap(group.position.z
\* - size/2), rotationY the group's rotation about Y, scale its x scale
C2_AsStated ==
  Reported =>
    /\ Snapped(obs.tcalls[1].x, RawTopLeftX(UpRoom))
    /\ Snapped(obs.tcalls[1].y, RawTopLeftZ(UpRoom))
    /\ obs.tcalls[1].rotationY = RotationOr0(groups[UpRoom])
    /\ obs.tcalls[1].scale = ScaleOr1(groups[UpRoom])

\* C3: when the user clicks a room in the 3D scene, onSelectRoom has been called
\* with that room's name once the click is handled
C3_ClickSelects ==
  obs.op = "click" => obs.scalls = << obs.room >>

\* C4: after every layout change (and the mount), each room's group has the
\* rotation about the vertical axis given by the room's rotation field and the
\* uniform scale given by its scale field, whenever those fields are defined
C4_RotationAndScale ==
  obs.op \in {"mount", "layout"} =>
    \A i \in 1..Len(sceneLayout) :
      /\ IsDefined(sceneLayout[i].rotation) => groups[i].ry = sceneLayout[i].rotation.v
      /\ IsDefined(sceneLayout[i].scale) => groups[i].sc = sceneLayout[i].scale.v

\* the top-left coordinates onTransformEnd reports with snap = 0
UnsnappedX == ToFixed(TopLeft(groups[UpRoom].px, SizeOf(sceneLayout[UpRoom])), Q3)
UnsnappedY == ToFixed(TopLeft(groups[UpRoom].pz, SizeOf(sceneLayout[UpRoom])), Q3)

\* C5: grid snapping. With a non-zero snap the reported x and y are integer
\* multiples of snap nearest to the unsnapped coordinates; with snap = 0 they
\* are the unsnapped coordinates; rotationY and scale are those of the group
\* (to 5 decimals) whatever the snap.
C5_GridSnap ==
  Reported =>
    /\ IF snap # 0
         THEN /\ NearestMultiple(obs.tcalls[1].x, UnsnappedX, snap)
              /\ NearestMultiple(obs.tcalls[1].y, UnsnappedY, snap)
         ELSE /\ obs.tcalls[1].x = UnsnappedX
              /\ obs.tcalls[1].y = UnsnappedY
    /\ 2 * Abs(obs.tcalls[1].rotationY - RotationOr0(groups[UpRoom])) <= Q5
    /\ 2 * Abs(obs.tcalls[1].scale - ScaleOr1(groups[UpRoom])) <= Q5

\* a report whose y was moved up to the grid, with a rotation that is no multiple
C5_Witness ==
  /\ Reported
  /\ snap # 0
  /\ obs.tcalls[1].y > UnsnappedY
  /\ obs.tcalls[1].x # UnsnappedX
  /\ obs.tcalls[1].rotationY % snap # 0

\* the rooms wrapped in transform controls
Wrapped == {i \in 1..Len(tcs) : tcs[i] # "none"}

\* C6: selection wiring. A room's group is wrapped in transform controls iff its
\* name equals selectedRoomName; without a selection, or with one that names no
\* room of the layout, there are no controls; there is at most one, and its mode
\* is the mode prop.
C6_SelectionWiring ==
  view = "rooms" =>
    /\ Len(tcs) = Len(sceneLayout)
    /\ \A i \in 1..Len(sceneLayout) :
         (i \in Wrapped) <=> (sceneLayout[i].name = selectedRoomName)
    /\ ( \/ selectedRoomName = Unset
         \/ \A i \in 1..Len(sceneLayout) : sceneLayout[i].name # selectedRoomName )
       => Wrapped = {}
    /\ Cardinality(Wrapped) <= 1
    /\ \A i \in Wrapped : tcs[i] = mode

\* the second room of a layout is the one wrapped, in rotate mode, and its
\* controls have dispatched a mouseUp
C6_Witness ==
  /\ view = "rooms"
  /\ obs.op = "mouseUp"
  /\ Len(sceneLayout) = 2
  /\ Wrapped = {2}
  /\ tcs[2] = "rotate"
  /\ mode = "rotate"

\* C7: renderMode is 'furnished' initially and always 'furnished' or
\* 'schematic'; clicking Furnished / Schematic sets it to that value, and no
\* other event changes it.
C7_RenderMode ==
  /\ renderMode = "furnished"
  /\ [](renderMode \in {"furnished", "schematic"})
  /\ [][ /\ ClickFurnished => renderMode' = "furnished"
         /\ ClickSchematic => renderMode' = "schematic"
         /\ renderMode' # renderMode => (ClickFurnished \/ ClickSchematic) ]_vars

\* schematic mode survived a preview and a selection
C7_Witness ==
  /\ renderMode = "schematic"
  /\ previewImg
  /\ selectedRoomName # Unset
  /\ ~viewerErr

\* the view and the layout of the room scene that C8 gives each model path
ExpectedView(mp) ==
  CASE mp = P_glb -> "gltf"
    [] mp = P_GLB -> "gltf"
    [] mp = P_gltf -> "gltf"
    [] mp = P_demoExtGlb -> "gltf"
    [] mp = P_demoExt -> "exterior"
    [] mp = P_demoCulture -> "culture"
    [] mp = P_demo -> "rooms"
    [] mp = P_demoX -> "rooms"
    [] mp = NullPath -> "rooms"
    [] mp = NumPath -> "rooms"
    [] mp = P_glbNoDot -> "rooms"
    [] mp = P_DemoExt -> "rooms"
    [] mp = P_room -> "rooms"

ExpectsDemoLayout(mp) == mp \in {P_demo, P_demoX}

\* C8: view dispatch on modelPath. For every modelPath exactly one view is
\* rendered: .glb / .gltf (case-insensitive) the GLTF viewer, then
\* 'demo-exterior' the exterior demo, then 'demo-culture' the culture demo, then
\* any other 'demo' the room scene with the demo layout, otherwise the room
\* scene with the layout prop.
C8_ViewDispatch ==
  /\ view = ExpectedView(modelPath)
  /\ view = "rooms" =>
       sceneLayout = IF ExpectsDemoLayout(modelPath) THEN demoLayout ELSE layout

C11_PersistenceRoundTrip ==
  (panel = "quick" /\ quick.fresh) =>
    /\ quick.saved.kind = "list" =>
         (quick.isList /\ quick.previewItems = quick.saved.items)
    /\ quick.storage[StorageKey(quick.roomType)] = Absent =>
         (quick.isList /\ quick.previewItems = <<>>)

\* mounted again after a Save of two different items: both are there, in order
C11_Witness ==
  /\ panel = "quick"
  /\ quick.fresh
  /\ quick.saved.kind = "list"
  /\ Len(quick.previewItems) = 2
  /\ quick.previewItems[1].price # quick.previewItems[2].price
  /\ quick.previewItems[1].pos.x = 89
  /\ quick.cart = <<>>


\* the latest burst-showing action still waits for its timer after this step,
\* and an earlier action's timer expired in it
EarlierTimerExpired ==
  /\ panel = "quick"
  /\ Len(quick'.timers) = Len(quick.timers) - 1
  /\ quick'.timers # <<>>
  /\ quick'.timers[Len(quick'.timers)] = quick.timers[Len(quick.timers)]

\* C12: burst indicator under interleaved timers. An earlier action's pending
\* timer never clears a later action's burst: while the latest burst-showing
\* action waits for its own timer, the expiry of an earlier timer leaves burst
\* as it is.
C12_BurstKeptUntilOwnTimer ==
  [][EarlierTimerExpired => quick'.burst = quick.burst]_vars


\* C13: storage errors in RoomQuickEditorNEW are swallowed and change nothing.
\* For every stored value previewItems is a list after load; when reading or
\* parsing the entry fails on load, previewItems and cart keep their values (the
\* empty lists of the mount); when setItem fails on save, previewItems and cart
\* keep their values and no burst is shown.
C13_StorageErrors ==
  /\ [](panel = "quick" => quick.isList)
  /\ []( ( /\ panel = "quick"
           /\ quick.fresh
           /\ quick.storage[StorageKey(quick.roomType)].kind \in {"invalid", "throws"} )
         => (quick.previewItems = <<>> /\ quick.cart = <<>>) )
  /\ [][ (QSave /\ quick'.wrote = {})
         => /\ quick'.previewItems = quick.previewItems
            /\ quick'.cart = quick.cart
            /\ quick'.burst = quick.burst
            /\ quick'.timers = quick.timers ]_vars


\* C14: a missing callback is a silent no-op. In each furniture edit panel,
\* clicking an Add / item button when no onAddFurniture prop was provided raises
\* no error and makes no call; when it is provided it is called exactly once
\* for the click, with the clicked item.
C14_MissingCallbackNoOp ==
  (furn.name \in PanelNames /\ furn.click # << >>) =>
    IF furn.hasOnAddFurniture
      THEN /\ furn.error = "none"
           /\ Len(furn.calls) = 1
           /\ furn.calls[1][2] = furn.click[2]
      ELSE /\ furn.error = "none"
           /\ furn.calls = << >>


\* C15: onTransformEnd fires only when an interaction ends. It is never called
\* in response to objectChange events, and a mouseUp makes no call when
\* selectedRoomName is empty (or undefined) or no group is registered under
\* that name.
C15_OnlyAtInteractionEnd ==
  /\ obs.op = "drag" => obs.tcalls = <<>>
  /\ obs.op = "mouseUp" =>
       ( ( \/ Falsy(selectedRoomName)
           \/ groupRefs[selectedRoomName] = 0 )
         => obs.tcalls = <<>> )

\* a mouseUp on the controls of the room named "", selected by the empty string,
\* with an onTransformEnd provided and the group dragged away
C15_Witness ==
  /\ obs.op = "mouseUp"
  /\ selectedRoomName = ""
  /\ obs.room = ""
  /\ hasOnTransformEnd
  /\ groupRefs[""] # 0
  /\ ~AtSyncedPose(groupRefs[""])
  /\ obs.tcalls = <<>>


\* C16: listener attach/detach. Whenever transform controls exist, exactly one
\* mouseUp / objectChange listener pair is registered, on the current controls,
\* and its handler uses the current selectedRoomName, layout, snap and
\* onTransformEnd; when no controls exist none remains registered.
C16_ListenerCurrent ==
  view = "rooms" =>
    IF Wrapped # {}
      THEN /\ Len(listener) = 1
           /\ listener[1].ctl = transformRef
           /\ listener[1].ctl \in Wrapped
           /\ listener[1].sel = selectedRoomName
           /\ listener[1].layout = sceneLayout
           /\ listener[1].snap = snap
           /\ listener[1].cb = hasOnTransformEnd
      ELSE listener = <<>>

\* controls on the second room after the props changed: a mouseUp made one call,
\* snapped with the current snap
C16_Witness ==
  /\ Reported
  /\ Wrapped = {2}
  /\ Len(listener) = 1
  /\ snap # 0
  /\ obs.tcalls[1].name = selectedRoomName
  /\ obs.tcalls[1].x % snap = 0
  /\ obs.tcalls[1].x # UnsnappedX


\* C17: layout sync of positions. After every external layout change (and the
\* mount), every room of the layout has its group registered in groupRefs under
\* its name and positioned at (x + size/2, 0, y + size/2), with size = 3 when
\* the room's size is missing, zero or non-numeric.
C17_LayoutSyncPositions ==
  (obs.op \in {"mount", "layout"} /\ view = "rooms") =>
    /\ Len(groups) = Len(sceneLayout)
    /\ \A i \in 1..Len(sceneLayout) :
         /\ groupRefs[sceneLayout[i].name] = i
         /\ AtSyncedPose(i)

\* a layout change to a room of size 0 and a room of non-numeric size, the
\* second one selected
C17_Witness ==
  /\ obs.op = "layout"
  /\ sceneLayout = << R_A2, R_B >>
  /\ selectedRoomName = "B"
  /\ groups[1].px = R_A2.x + 1500000
  /\ groups[2].pz = R_B.y + 1500000


\* C18: a room's pose survives re-mounting. For a layout room with rotationY
\* and scale defined, after any sequence of render-mode toggles and selection
\* changes with the layout unchanged (and no drag), the room's group has
\* rotation.y = rotationY and scale = scale, and a mouseUp reports the layout's
\* rotationY and scale (to 5 decimals).
C18_PoseSurvivesRemount ==
  view = "rooms" =>
    /\ \A i \in 1..Len(sceneLayout) :
         (IsDefined(sceneLayout[i].rotationY) /\ IsDefined(sceneLayout[i].scale)) =>
           /\ groups[i].ry = sceneLayout[i].rotationY.v
           /\ groups[i].sc = sceneLayout[i].scale.v
    /\ ( /\ Reported
         /\ IsDefined(sceneLayout[UpRoom].rotationY)
         /\ IsDefined(sceneLayout[UpRoom].scale) )
       => /\ 2 * Abs(obs.tcalls[1].rotationY - sceneLayout[UpRoom].rotationY.v) <= Q5
          /\ 2 * Abs(obs.tcalls[1].scale - sceneLayout[UpRoom].scale.v) <= Q5


\* the furniture set the stated priority gives each room name of the model
ExpectedSet(name) ==
  CASE name = N_FamilyBathroom -> "bathroom"
    [] name = N_WC -> "bathroom"
    [] name = N_LivingKitchen -> "living"
    [] name = N_MasterSuiteLounge -> "living"
    [] name = N_MasterBedroomKitchen -> "master"
    [] name = N_MasterSuite -> "master"
    [] name = N_KITCHEN -> "kitchen"
    [] OTHER -> "generic"

\* the item ids of a sequence
ItemsOf(seq) == {seq[j] : j \in 1..Len(seq)}

\* C19: furniture by mode and name. In schematic mode no room shows interior
\* furniture or external furniture; in furnished mode every room shows exactly
\* one furniture set, chosen from its lower-cased name with the priority
\* bathroom, living room, master bedroom, kitchen, generic; the external
\* furniture of a key is shown only in the room whose name is that key.
C19_FurnitureByModeAndName ==
  /\ Len(interior.frame) = Len(interior.rooms)
  /\ \A i \in 1..Len(interior.rooms) :
       /\ interior.renderMode = "schematic" =>
            /\ interior.frame[i].sets = {}
            /\ interior.frame[i].external = << >>
       /\ interior.renderMode = "furnished" =>
            /\ interior.frame[i].sets = {ExpectedSet(interior.rooms[i])}
            /\ interior.externalFurniture.defined =>
                 \A k \in DOMAIN interior.externalFurniture.at :
                   IF interior.rooms[i] = k
                     THEN interior.frame[i].external = interior.externalFurniture.at[k]
                     ELSE ItemsOf(interior.frame[i].external)
                            \cap ItemsOf(interior.externalFurniture.at[k]) = {}

\* C19 witness: furnished, a living-room name that also contains "kitchen"
\* beside a room that has external furniture under its own name
C19_Witness ==
  /\ interior.renderMode = "furnished"
  /\ interior.rooms = << N_WC, N_LivingKitchen >>
  /\ interior.frame[2].sets = {"living"}
  /\ interior.frame[1].external = << "f3" >>
  /\ interior.frame[2].external = << >>


\* C20: glTF models are used when available. Once sofa.glb, tv.glb or
\* toilet.glb has loaded while the room scene is mounted and the scene has
\* rendered again, every furnished room with a Sofa, TV or Toilet renders the
\* loaded model in its place; a piece whose file failed to load is rendered
\* procedurally, and no error leaves SceneInner.
C20_ModelsUsedWhenAvailable ==
  /\ ~interior.error
  /\ \A i \in 1..Len(interior.frame) :
       \A p \in DOMAIN interior.frame[i].slots :
         /\ (interior.files[p] = "loaded" /\ interior.renderedSince[p])
              => interior.frame[i].slots[p] = "gltf"
         /\ interior.files[p] = "failed"
              => interior.frame[i].slots[p] = "procedural"

\* C21: in the glTF viewer, once the loaded model has reported its centre and
\* the viewer has rendered with the new modelTarget, the orbit controls' target
\* is that centre and the camera stands at centre + (4, 3, 8).
C21_ControlsFollowCentre ==
  gltfView.op = "center" =>
    /\ gltfView.target = gltfView.modelTarget
    /\ gltfView.camera = VecAdd(gltfView.modelTarget, Vec(4, 3, 8))

\* C22: hooks are unconditional. Every render of one ThreeDViewer instance runs
\* the same sequence of hooks as the render before it, across any change of
\* modelPath between glTF and other values, and the change never leaves the
\* viewer in an error state.
C22_HooksUnconditional ==
  [][ /\ ViewerHooks(isGLTF(modelPath')) = ViewerHooks(isGLTF(modelPath))
      /\ ~viewerErr' ]_vars

\* C23: onRoomsReady notification. After every layout change the parent's
\* onRoomsReady, when it is a function, has been called exactly once, with the
\* room names in layout order, or with the empty list when layout.rooms is not
\* an array; an exception thrown by the callback does not propagate, and the
\* groups are synced all the same.
C23_RoomsReadyNotified ==
  obs.op = "layout" =>
    /\ ~viewerErr
    /\ obs.ready # "none" =>
         obs.rcalls = << IF obs.rooms = "array"
                           THEN [i \in 1..Len(layout) |-> layout[i].name]
                           ELSE << >> >>
    /\ Len(groups) = Len(sceneLayout)
    /\ \A i \in 1..Len(sceneLayout) : AtSyncedPose(i)

\* the quantity the cart holds of one catalog key
QtyOfKey(cart, k) ==
  IF \E i \in 1..Len(cart) : cart[i].key = k
    THEN cart[CHOOSE i \in 1..Len(cart) : cart[i].key = k].qty
    ELSE 0

\* the sum over a set of catalog keys of price times the quantity in the cart
RECURSIVE SumOver(_, _)
SumOver(keys, cart) ==
  IF keys = {} THEN 0
  ELSE LET k == CHOOSE x \in keys : TRUE
       IN CATALOG[k].price * QtyOfKey(cart, k) + SumOver(keys \ {k}, cart)

\* C24: cart invariant of RoomQuickEditorNEW. After any sequence of Add to
\* Cart, +, -, Remove, Add-all and Reset, the cart holds at most one entry per
\* catalog key, every entry has qty >= 1, and the displayed total is the sum of
\* price * qty over the cart (0 for an empty cart).
C24_CartInvariant ==
  panel = "quick" =>
    /\ \A i, j \in 1..Len(quick.cart) :
         quick.cart[i].key = quick.cart[j].key => i = j
    /\ \A i \in 1..Len(quick.cart) :
         /\ quick.cart[i].key \in CatalogKeys
         /\ quick.cart[i].qty >= 1
         /\ quick.cart[i].price = CATALOG[quick.cart[i].key].price
    /\ cartTotal(quick.cart) = SumOver(CatalogKeys, quick.cart)
    /\ quick.cart = <<>> => cartTotal(quick.cart) = 0

\* C24 witness: two entries, one raised by + or a second Add to Cart, the
\* other at qty 1 where - leaves it: 2 * 29 + 299
C24_Witness ==
  /\ panel = "quick"
  /\ Len(quick.cart) = 2
  /\ quick.cart[1].key = "lamp"
  /\ quick.cart[1].qty = 2
  /\ quick.cart[2].qty = 1
  /\ cartTotal(quick.cart) = 357

\* the step is a click on "Add all to room"
AddAllClicked == QAddAllCartToRoom

\* the items the step put in front of the preview
NewItems == SubSeq(quick'.previewItems, 1,
                   Len(quick'.previewItems) - Len(quick.previewItems))

\* how many of the new items carry the label, category, icon and price of a cart entry
CountLike(items, ci) ==
  Cardinality({ n \in 1..Len(items) :
                  /\ items[n].label = ci.label
                  /\ items[n].cat = ci.cat
                  /\ items[n].icon = ci.icon
                  /\ items[n].price = ci.price })

\* C25: addAllCartToRoom. With an empty cart it changes nothing (no preview
\* change, no burst, no timer); otherwise it prepends exactly sum-of-qty new
\* items (qty items per cart entry, each with that entry's label, category, icon
\* and price and a position with x in 10..89 and y in 15..84), leaves the
\* existing preview items unchanged and in order, and empties the cart.
C25_AddAllCartToRoom ==
  [][ AddAllClicked =>
        IF quick.cart = <<>>
          THEN /\ quick'.previewItems = quick.previewItems
               /\ quick'.cart = <<>>
               /\ quick'.burst = quick.burst
               /\ quick'.timers = quick.timers
          ELSE /\ Len(quick'.previewItems)
                    = Len(quick.previewItems) + CartCount(quick.cart)
               /\ SubSeq(quick'.previewItems,
                         Len(quick'.previewItems) - Len(quick.previewItems) + 1,
                         Len(quick'.previewItems)) = quick.previewItems
               /\ \A j \in 1..Len(quick.cart) :
                    CountLike(NewItems, quick.cart[j]) = quick.cart[j].qty
               /\ \A n \in 1..Len(NewItems) :
                    /\ NewItems[n].pos.x \in 10..89
                    /\ NewItems[n].pos.y \in 15..84
               /\ quick'.cart = <<>> ]_vars

\* C25 witness: Add-all has put two items of one cart entry of qty 2 into the
\* preview, at the upper end of the position range
C25_Witness ==
  /\ panel = "quick"
  /\ quick.burst = "sparkles"
  /\ quick.cart = <<>>
  /\ Len(quick.previewItems) = 2
  /\ quick.previewItems[1].label = "Sofa"
  /\ quick.previewItems[2].label = "Sofa"
  /\ quick.previewItems[1].pos = [x |-> 89, y |-> 84]

====
